---- MODULE Spec2Model ----
(***************************************************************************)
(* A model of refill's selector language and spec walker                   *)
(* (src/refill/spec.py): parse_selector, select_data with its filters, and *)
(* apply_spec.                                                             *)
(*                                                                         *)
(* Representation.  A Python value is a record [t, v]: t is the kind       *)
(* ("int", "float", "str", "list", "dict", "none", "err") and v the        *)
(* payload.  A dict keeps insertion order, so it is a sequence of entries  *)
(* [k, v] with distinct keys.  A dict key is a sequence of characters      *)
(* (an identifier counts as one character), so that "~a?" is               *)
(* <<"~", "a", "?">> and endswith / slicing are computed, not looked up.   *)
(* A selector is the sequence of its tokens (pyparsing skips the white     *)
(* space between tokens).  A raised exception is the value Err(class,      *)
(* message).                                                               *)
(***************************************************************************)
EXTENDS Integers, Sequences, FiniteSets, TLC

VARIABLES
    spec,      \* the spec handed to apply_spec (a dict value)
    data,      \* the data handed to apply_spec / select_data
    stack,     \* the active apply_spec calls, outermost first
    status,    \* "running" | "returned" | "raised"
    outcome,   \* the value returned or the exception raised by the outer call
    log,       \* history: one record per selector leaf evaluated, in order
    selector,  \* the selector handed to a direct select_data call
    table,     \* the lookup_table handed to a direct select_data call
    functions, \* the Filters objects: the _functions dict of each, by identity
    copied,    \* the object that default_filters.copy() returned, 0 before it
    call,      \* the calls of Filters.apply made in a row: whose, on what, which
    target_cls, \* the target class handed to validate_spec (its type hints)
    opened,    \* the arguments of the calls of urlopen made so far, in order
    other,     \* the apply_spec call of the other thread, suspended
    heap       \* the objects in memory, by identity (the memory specification)

vars == <<spec, data, stack, status, outcome, log, selector, table,
          functions, copied, call, target_cls, opened, other, heap>>

\* what apply_spec and select_data leave alone
registryVars == <<functions, copied, call, target_cls>>

----------------------------------------------------------------------------
(* Python values *)

IntV(n) == [t |-> "int", v |-> n]
StrV(s) == [t |-> "str", v |-> s]
ListV(s) == [t |-> "list", v |-> s]
DictV(s) == [t |-> "dict", v |-> s]
NoneV == [t |-> "none", v |-> 0]
Err(cls, msg) == [t |-> "err", v |-> <<cls, msg>>]

IsErr(x) == x.t = "err"
IsKeyError(x) == x.t = "err" /\ x.v[1] = "KeyError"

Entry(k, v) == [k |-> k, v |-> v]

\* dict.keys()
DictKeys(d) == [i \in 1..Len(d) |-> d[i].k]

\* key in dict
HasKey(d, k) == \E i \in 1..Len(d) : d[i].k = k

\* dict[key], for a key that is present
DictGet(d, k) == d[CHOOSE i \in 1..Len(d) : d[i].k = k].v

\* dict[key] = value: an existing key keeps its place, a new key goes last
DictSet(d, k, v) ==
    IF HasKey(d, k)
    THEN [i \in 1..Len(d) |-> IF d[i].k = k THEN Entry(k, v) ELSE d[i]]
    ELSE Append(d, Entry(k, v))

\* an identifier as a string
Name(id) == <<id>>

\* the first exception raised while building a list, if any
HasErr(s) == \E i \in 1..Len(s) : IsErr(s[i])
FirstErr(s) == s[CHOOSE i \in 1..Len(s) :
                     IsErr(s[i]) /\ \A j \in 1..(i - 1) : ~IsErr(s[j])]

\* {k: f(v) for (k, v) in x.items()}, given the values f(v)
WithValues(d, vals) ==
    IF HasErr(vals) THEN FirstErr(vals)
    ELSE DictV([i \in 1..Len(d) |-> Entry(d[i].k, vals[i])])

\* [f(i) for i in x], given the values f(i)
ListOf(vals) == IF HasErr(vals) THEN FirstErr(vals) ELSE ListV(vals)

----------------------------------------------------------------------------
(* The selector grammar (pyparsing), over token sequences *)

Punct == {"=", ".", ",", "|", "(", ")", "+", "-", "*", "/", "!"}
Numerals == {"0", "1", "2", "3"}
EndTok == "<end>"

Tok(toks, p) == IF p >= 1 /\ p <= Len(toks) THEN toks[p] ELSE EndTok

\* Word(alphas + "_", alphanums + "_")
IsIdent(tok) == tok \notin Punct \cup Numerals \cup {EndTok}

\* argument_token: Word(alphanums)
IsArg(tok) == tok \notin Punct \cup {EndTok}

NoParse == [ok |-> FALSE, lookup |-> "", selections |-> <<>>, filters |-> <<>>,
            next |-> 0]

\* MatchFirst (a | b): the first alternative that matches
OrElse(a, b) == IF a.ok THEN a ELSE b

\* lookup_token = "=" + Word(...)("lookup")
lookup_token(toks, p) ==
    IF Tok(toks, p) = "=" /\ IsIdent(Tok(toks, p + 1))
    THEN [NoParse EXCEPT !.ok = TRUE, !.lookup = toks[p + 1], !.next = p + 2]
    ELSE NoParse

ConsField(field, r) == [fields |-> <<field>> \o r.fields, next |-> r.next]

\* field_token + ("." + field_token)[0, ...], entered at an identifier
RECURSIVE FieldsFrom(_, _)
FieldsFrom(toks, p) ==
    IF Tok(toks, p + 1) = "." /\ IsIdent(Tok(toks, p + 2))
    THEN ConsField(toks[p], FieldsFrom(toks, p + 2))
    ELSE [fields |-> <<toks[p]>>, next |-> p + 1]

OneSelection(r) ==
    [NoParse EXCEPT !.ok = TRUE, !.selections = <<r.fields>>, !.next = r.next]

\* selection_token = Group(field_token + ("." + field_token)[0, ...])
selection_token(toks, p) ==
    IF IsIdent(Tok(toks, p)) THEN OneSelection(FieldsFrom(toks, p)) ELSE NoParse

ConsSelection(s, r) ==
    [selections |-> <<s.fields>> \o r.selections, next |-> r.next]

\* ("," + selection_token)[...], the tail of delimited_list
RECURSIVE CombineTail(_, _)
CombineMore(toks, s) == ConsSelection(s, CombineTail(toks, s.next))
CombineTail(toks, p) ==
    IF Tok(toks, p) = "," /\ IsIdent(Tok(toks, p + 1))
    THEN CombineMore(toks, FieldsFrom(toks, p + 1))
    ELSE [selections |-> <<>>, next |-> p]

JoinSelections(s, r) ==
    [s EXCEPT !.selections = s.selections \o r.selections, !.next = r.next]

CombineFrom(toks, s) ==
    IF s.ok THEN JoinSelections(s, CombineTail(toks, s.next)) ELSE NoParse

\* combine_token = delimited_list(selection_token, delim=",")
combine_token(toks, p) == CombineFrom(toks, selection_token(toks, p))

ConsArgument(arg, r) == [arguments |-> <<arg>> \o r.arguments, next |-> r.next]

\* ("," + argument_token)[...]
RECURSIVE ArgTail(_, _)
ArgTail(toks, p) ==
    IF Tok(toks, p) = "," /\ IsArg(Tok(toks, p + 1))
    THEN ConsArgument(toks[p + 1], ArgTail(toks, p + 2))
    ELSE [arguments |-> <<>>, next |-> p]

\* Optional(delimited_list(argument_token), [])("arguments")
ArgList(toks, p) ==
    IF IsArg(Tok(toks, p))
    THEN ConsArgument(toks[p], ArgTail(toks, p + 1))
    ELSE [arguments |-> <<>>, next |-> p]

\* "(" + arguments + ")" as a whole, or nothing of it
CloseArguments(toks, p, list) ==
    IF Tok(toks, p) = "(" /\ Tok(toks, list.next) = ")"
    THEN [list EXCEPT !.next = list.next + 1]
    ELSE [arguments |-> <<>>, next |-> p]

\* Optional("(" + Optional(delimited_list(argument_token), [])("arguments") + ")"),
\* entered after the filter's name; an unfinished "(" is left unconsumed
filter_arguments(toks, p) == CloseArguments(toks, p, ArgList(toks, p + 1))

ConsFilter(name, arguments, r) ==
    [filters |-> <<[name |-> name, arguments |-> arguments]>> \o r.filters,
     next |-> r.next]

\* filter_token[0, ...]: "|" + Group(name + Optional(arguments)), repeated
RECURSIVE filter_tokens(_, _)
FilterThenMore(toks, name, a) ==
    ConsFilter(name, a.arguments, filter_tokens(toks, a.next))
filter_tokens(toks, p) ==
    IF Tok(toks, p) = "|" /\ IsIdent(Tok(toks, p + 1))
    THEN FilterThenMore(toks, toks[p + 1], filter_arguments(toks, p + 2))
    ELSE [filters |-> <<>>, next |-> p]

\* "(" + combine_token + ")"
Parenthesised(toks, p, c) ==
    IF Tok(toks, p) = "(" /\ c.ok /\ Tok(toks, c.next) = ")"
    THEN [c EXCEPT !.next = c.next + 1]
    ELSE NoParse

\* filtered_token = lookup_token | selection_token | ("(" + combine_token + ")")
filtered_token(toks, p) ==
    OrElse(lookup_token(toks, p),
           OrElse(selection_token(toks, p),
                  Parenthesised(toks, p, combine_token(toks, p + 1))))

\* unfiltered_token = lookup_token | combine_token
unfiltered_token(toks, p) ==
    OrElse(lookup_token(toks, p), combine_token(toks, p))

\* filter_token[1, ...] after a filtered_token: at least one filter
WithFilters(f, fs) ==
    IF Len(fs.filters) >= 1
    THEN [f EXCEPT !.filters = fs.filters, !.next = fs.next]
    ELSE NoParse

FilteredThenFilters(toks, f) ==
    IF f.ok THEN WithFilters(f, filter_tokens(toks, f.next)) ELSE NoParse

\* selector_parser = (filtered_token + filter_token[1, ...]) | unfiltered_token
selector_parser(toks, p) ==
    OrElse(FilteredThenFilters(toks, filtered_token(toks, p)),
           unfiltered_token(toks, p))

\* a variant of AtEnd: parse_all=False, what follows the match is ignored
Anywhere(toks, r) == r

\* parse_all=True: the match must reach the end of the string
AtEnd(toks, r) == IF r.ok /\ r.next = Len(toks) + 1 THEN r ELSE NoParse

\* selector_parser.parse_string(selector, parse_all=True)
parse_selector(toks) == AtEnd(toks, selector_parser(toks, 1))

----------------------------------------------------------------------------
(* The filters of src/refill/spec.py *)

CannotApply(name) == Err("ValueError", <<name, "filter cannot be applied to given value">>)

\* a variant of keys_filter: the indices of a list counted from one
CountedFromOne(x) ==
    IF x.t = "dict" THEN ListV([i \in 1..Len(x.v) |-> StrV(x.v[i].k)])
    ELSE IF x.t = "list" THEN ListV([i \in 1..Len(x.v) |-> IntV(i)])
    ELSE CannotApply("keys")

keys_filter(x) ==
    IF x.t = "dict" THEN ListV([i \in 1..Len(x.v) |-> StrV(x.v[i].k)])
    ELSE IF x.t = "list" THEN ListV([i \in 1..Len(x.v) |-> IntV(i - 1)])
    ELSE CannotApply("keys")

values_filter(x) ==
    IF x.t = "dict" THEN ListV([i \in 1..Len(x.v) |-> x.v[i].v])
    ELSE IF x.t = "list" THEN x
    ELSE CannotApply("values")

Reversed(s) == [i \in 1..Len(s) |-> s[Len(s) + 1 - i]]

reverse_filter(x) ==
    IF x.t = "list" THEN ListV(Reversed(x.v))
    ELSE IF x.t = "dict" THEN DictV(Reversed(x.v))
    ELSE IF x.t = "str" THEN StrV(Reversed(x.v))
    ELSE CannotApply("reverse")

\* str.lower / str.upper, character by character
LowerChar(c) == CASE c = "A" -> "a" [] c = "B" -> "b" [] OTHER -> c
UpperChar(c) == CASE c = "a" -> "A" [] c = "b" -> "B" [] OTHER -> c

RECURSIVE lower_filter(_)
lower_filter(x) ==
    IF x.t = "str" THEN StrV([i \in 1..Len(x.v) |-> LowerChar(x.v[i])])
    ELSE IF x.t = "list"
         THEN ListOf([i \in 1..Len(x.v) |-> lower_filter(x.v[i])])
    ELSE IF x.t = "dict"
         THEN WithValues(x.v, [i \in 1..Len(x.v) |-> lower_filter(x.v[i].v)])
    ELSE CannotApply("lower")

RECURSIVE upper_filter(_)
upper_filter(x) ==
    IF x.t = "str" THEN StrV([i \in 1..Len(x.v) |-> UpperChar(x.v[i])])
    ELSE IF x.t = "list"
         THEN ListOf([i \in 1..Len(x.v) |-> upper_filter(x.v[i])])
    ELSE IF x.t = "dict"
         THEN WithValues(x.v, [i \in 1..Len(x.v) |-> upper_filter(x.v[i].v)])
    ELSE CannotApply("upper")

\* x[0] of an empty list raises IndexError
first_filter(x) ==
    IF x.t = "list"
    THEN IF Len(x.v) = 0 THEN Err("IndexError", <<"list index out of range">>)
         ELSE x.v[1]
    ELSE CannotApply("first")

last_filter(x) ==
    IF x.t = "list"
    THEN IF Len(x.v) = 0 THEN Err("IndexError", <<"list index out of range">>)
         ELSE x.v[Len(x.v)]
    ELSE CannotApply("last")

Min(a, b) == IF a <= b THEN a ELSE b

\* s[:n] for n >= 0
Prefix(s, n) == SubSeq(s, 1, Min(n, Len(s)))

\* s[-n:] for n >= 0; s[-0:] is s[0:], the whole sequence
Suffix(s, n) ==
    IF n = 0 THEN s ELSE SubSeq(s, Len(s) - Min(n, Len(s)) + 1, Len(s))

head_filter(x, n) ==
    IF x.t = "list" THEN ListV(Prefix(x.v, n))
    ELSE IF x.t = "dict" THEN DictV(Prefix(x.v, n))
    ELSE CannotApply("head")

tail_filter(x, n) ==
    IF x.t = "list" THEN ListV(Suffix(x.v, n))
    ELSE IF x.t = "dict" THEN DictV(Suffix(x.v, n))
    ELSE CannotApply("tail")

\* sum(x): 0 + x[0] + x[1] + ...; a non-number raises TypeError
RECURSIVE SumInts(_)
SumInts(s) == IF Len(s) = 0 THEN 0 ELSE s[1].v + SumInts(Tail(s))

RECURSIVE sum_filter(_)
sum_filter(x) ==
    IF x.t = "list"
    THEN IF \A i \in 1..Len(x.v) : x.v[i].t = "int"
         THEN IntV(SumInts(x.v))
         ELSE Err("TypeError", <<"unsupported operand type(s) for +">>)
    ELSE IF x.t = "dict"
         THEN WithValues(x.v, [i \in 1..Len(x.v) |-> sum_filter(x.v[i].v)])
    ELSE CannotApply("sum")

\* sorted(x) of a list of ints; elements that cannot be ordered raise TypeError
RECURSIVE SortedInts(_)
SortedInts(s) ==
    IF Len(s) = 0 THEN <<>>
    ELSE LET i == CHOOSE i \in 1..Len(s) :
                      /\ \A j \in 1..Len(s) : s[i].v <= s[j].v
                      /\ \A j \in 1..(i - 1) : s[j].v # s[i].v
         IN  <<s[i]>> \o SortedInts(SubSeq(s, 1, i - 1) \o SubSeq(s, i + 1, Len(s)))

sort_filter(x) ==
    IF x.t = "list"
    THEN IF \A i \in 1..Len(x.v) : x.v[i].t = "int"
         THEN ListV(SortedInts(x.v))
         ELSE IF Len(x.v) <= 1 THEN x
         ELSE IF \E i \in 1..Len(x.v) : x.v[i].t \in {"dict", "none"}
         THEN Err("TypeError", <<"'<' not supported">>)
         ELSE Err("NotModelled", <<"sorted">>)
    ELSE CannotApply("sort")

\* the names of the dict of filters in select_data
FilterNames ==
    {"keys", "values", "sort", "reverse", "lower", "upper", "str", "int",
     "selfie", "first", "last", "head", "tail", "sum", "format_number",
     "format_currency", "format_percent", "format_date", "fetch"}

\* the filters whose bodies are modelled; selectors are drawn over these
ModelledFilters ==
    {"keys", "values", "sort", "reverse", "lower", "upper", "first", "last",
     "head", "tail", "sum"}

\* int(arg) of a textual argument
\* locale: str = "en_US", the default of select_data and apply_spec
locale == "en_US"

\* babel's format_currency(x, currency, locale=locale): a string made of the
\* number, the currency and the locale
format_currency(x, currency, loc) == StrV(<<currency, ToString(x.v), loc>>)

RECURSIVE format_currency_filter(_, _, _)
format_currency_filter(x, currency, loc) ==
    IF x.t = "int" THEN format_currency(x, currency, loc)
    ELSE IF x.t = "list"
         THEN ListOf([i \in 1..Len(x.v) |->
                         format_currency_filter(x.v[i], currency, loc)])
    ELSE IF x.t = "dict"
         THEN WithValues(x.v, [i \in 1..Len(x.v) |->
                                  format_currency_filter(x.v[i].v, "USD", loc)])
    ELSE CannotApply("format_currency")

\* currency: str = "USD", coerced with str(arg) when an argument is written
CurrencyOf(arguments) == IF Len(arguments) >= 1 THEN arguments[1] ELSE "USD"

IsNumeral(arg) == arg \in Numerals
NumeralValue(arg) ==
    CASE arg = "0" -> 0 [] arg = "1" -> 1 [] arg = "2" -> 2 [] arg = "3" -> 3

\* the bytes that read() gives for a response
BytesV(body) == [t |-> "bytes", v |-> body]

\* the URLs that the urlopen of the caller fails to open
Unreachable == {<<"c", "d">>}

\* urlopen(url).read(); the body of a URL is written as the URL itself
urlopen(url) ==
    IF url.t = "str" /\ url.v \notin Unreachable THEN BytesV(url.v)
    ELSE Err("URLError", <<"urlopen error">>)

\* [urlopen(i).read() for i in x] as far as it gets: the first exception
\* ends the comprehension
RECURSIVE fetch_each(_)
fetch_each(x) ==
    IF Len(x) = 0 THEN <<>>
    ELSE IF IsErr(urlopen(Head(x))) THEN <<urlopen(Head(x))>>
    ELSE <<urlopen(Head(x))>> \o fetch_each(Tail(x))

\* a variant of fetch_filter: a list is opened from its last URL to its first
fetch_backwards(x) ==
    IF x.t = "str" THEN [value |-> urlopen(x), calls |-> <<x>>]
    ELSE IF x.t = "list"
    THEN [value |-> IF HasErr(fetch_each(reverse_filter(x).v))
                    THEN FirstErr(fetch_each(reverse_filter(x).v))
                    ELSE ListV(fetch_each(x.v)),
          calls |-> SubSeq(reverse_filter(x).v, 1,
                           Len(fetch_each(reverse_filter(x).v)))]
    ELSE [value |-> CannotApply("fetch"), calls |-> <<>>]

\* fetch_filter: what it returns or raises, and the calls of urlopen it makes
fetch_filter(x) ==
    IF x.t = "str" THEN [value |-> urlopen(x), calls |-> <<x>>]
    ELSE IF x.t = "list"
    THEN [value |-> IF HasErr(fetch_each(x.v)) THEN FirstErr(fetch_each(x.v))
                    ELSE ListV(fetch_each(x.v)),
          calls |-> SubSeq(x.v, 1, Len(fetch_each(x.v)))]
    ELSE [value |-> CannotApply("fetch"), calls |-> <<>>]

\* func(selected, *args, **kwargs), n being the coerced argument of head / tail
call_filter(name, selected, n) ==
    CASE name = "keys" -> keys_filter(selected)
      [] name = "values" -> values_filter(selected)
      [] name = "sort" -> sort_filter(selected)
      [] name = "reverse" -> reverse_filter(selected)
      [] name = "lower" -> lower_filter(selected)
      [] name = "upper" -> upper_filter(selected)
      [] name = "first" -> first_filter(selected)
      [] name = "last" -> last_filter(selected)
      [] name = "head" -> head_filter(selected, n)
      [] name = "tail" -> tail_filter(selected, n)
      [] name = "sum" -> sum_filter(selected)
      [] name = "fetch" -> fetch_filter(selected).value
      [] OTHER -> Err("NotModelled", <<name>>)

\* except KeyError: raise ValueError(...) / except TypeError: raise ValueError(...)
Translate(name, called) ==
    IF called.t = "err" /\ called.v[1] = "KeyError"
    THEN Err("ValueError", <<name, "filter does not exist">>)
    ELSE IF called.t = "err" /\ called.v[1] = "TypeError"
    THEN Err("ValueError", <<name, "invalid arguments for filter">>)
    ELSE called

\* the filters with a positional int parameter after x
TakesInt(name) == name \in {"head", "tail"}

\* One turn of the filter loop of select_data: find the function, coerce the
\* arguments the signature has room for (the others are dropped by zip), call,
\* and translate KeyError and TypeError to ValueError.
apply_filter(selected, filter) ==
    IF filter.name \notin FilterNames
    THEN Err("ValueError", <<filter.name, "filter does not exist">>)
    ELSE IF filter.name = "format_currency"
    THEN Translate(filter.name,
                   format_currency_filter(selected, CurrencyOf(filter.arguments),
                                          locale))
    ELSE IF TakesInt(filter.name) /\ Len(filter.arguments) >= 1
    THEN IF IsNumeral(filter.arguments[1])
         THEN Translate(filter.name,
                        call_filter(filter.name, selected,
                                    NumeralValue(filter.arguments[1])))
         ELSE Err("ValueError", <<"invalid literal for int()">>)
    ELSE Translate(filter.name, call_filter(filter.name, selected, 1))

\* for filter_ in parsed.filters: ...; the first exception ends the loop
RECURSIVE apply_filters(_, _)
ThenFilters(selected, filters) ==
    IF IsErr(selected) THEN selected ELSE apply_filters(selected, filters)
apply_filters(selected, filters) ==
    IF Len(filters) = 0 THEN selected
    ELSE ThenFilters(apply_filter(selected, Head(filters)), Tail(filters))

\* the calls of urlopen that the filter loop makes on its way
RECURSIVE opened_by(_, _)
opened_by(selected, filters) ==
    IF IsErr(selected) \/ Len(filters) = 0 THEN <<>>
    ELSE (IF Head(filters).name = "fetch" THEN fetch_filter(selected).calls
          ELSE <<>>)
         \o opened_by(apply_filter(selected, Head(filters)), Tail(filters))

----------------------------------------------------------------------------
(* The registry of src/refill/filters.py.  A function is the record of where *)
(* it is defined and its name; its filter functions are those of            *)
(* src/refill/spec.py but for sort_filter, which also takes a dict, and     *)
(* cumul_filter, which spec.py has not.                                      *)

\* the characters of the strings of the model, in code point order
Alphabet == <<"A", "B", "a", "b", "l", "m", "n", "p", "w", "x", "y">>
Ord(ch) == CHOOSE i \in 1..Len(Alphabet) : Alphabet[i] = ch

\* s < t of two strings
RECURSIVE StrLess(_, _)
StrLess(s, t) ==
    IF t = <<>> THEN FALSE
    ELSE IF s = <<>> THEN TRUE
    ELSE IF Head(s) = Head(t) THEN StrLess(Tail(s), Tail(t))
    ELSE Ord(Head(s)) < Ord(Head(t))

\* a < b of two values of the same kind, ints or strs
Less(a, b) == IF a.t = "int" THEN a.v < b.v ELSE StrLess(a.v, b.v)

\* a variant of Sorted: the elements in the order they are in
Unsorted(s) == s

\* sorted(s), stable: the first of the smallest elements, then the rest sorted
RECURSIVE Sorted(_)
WithoutIndex(s, i) == SubSeq(s, 1, i - 1) \o SubSeq(s, i + 1, Len(s))
FirstSmallest(s) ==
    CHOOSE i \in 1..Len(s) :
        /\ \A j \in 1..Len(s) : ~Less(s[j], s[i])
        /\ \A j \in 1..(i - 1) : Less(s[i], s[j])
Sorted(s) ==
    IF Len(s) = 0 THEN <<>>
    ELSE <<s[FirstSmallest(s)]>> \o Sorted(WithoutIndex(s, FirstSmallest(s)))

\* the elements can be compared with <: all ints or all strs
Comparable(s) ==
    \/ \A i \in 1..Len(s) : s[i].t = "int"
    \/ \A i \in 1..Len(s) : s[i].t = "str"

\* sorted(x.items()): the keys are distinct strs, so the items go by key
SortedItems(d) ==
    [i \in 1..Len(d) |->
        Entry(Sorted([j \in 1..Len(d) |-> StrV(d[j].k)])[i].v,
              DictGet(d, Sorted([j \in 1..Len(d) |-> StrV(d[j].k)])[i].v))]

\* sort_filter of filters.py
filters_sort_filter(x) ==
    IF x.t = "list"
    THEN IF Len(x.v) <= 1 \/ Comparable(x.v) THEN ListV(Sorted(x.v))
         ELSE Err("TypeError", <<"'<' not supported">>)
    ELSE IF x.t = "dict" THEN DictV(SortedItems(x.v))
    ELSE CannotApply("sort")

\* a variant of Accumulate: the items as they are
Unsummed(s, sofar) == s

\* itertools.accumulate of numbers: the running sums, the total so far given
RECURSIVE Accumulate(_, _)
Accumulate(s, sofar) ==
    IF Len(s) = 0 THEN <<>>
    ELSE <<IntV(sofar + s[1].v)>> \o Accumulate(Tail(s), sofar + s[1].v)

AllInts(s) == \A i \in 1..Len(s) : s[i].t = "int"

cumul_filter(x) ==
    IF x.t = "list"
    THEN IF AllInts(x.v) THEN ListV(Accumulate(x.v, 0))
         ELSE Err("TypeError", <<"unsupported operand type(s) for +">>)
    ELSE IF x.t = "dict"
    THEN IF AllInts([i \in 1..Len(x.v) |-> x.v[i].v])
         THEN DictV([i \in 1..Len(x.v) |->
                        Entry(x.v[i].k,
                              Accumulate([j \in 1..Len(x.v) |-> x.v[j].v], 0)[i])])
         ELSE Err("TypeError", <<"unsupported operand type(s) for +">>)
    ELSE CannotApply("cumul")

\* a function: a filter function of filters.py, or a lambda of a caller
FilterFunction(name) == [module |-> "refill.filters", name |-> name]
Lambda(name) == [module |-> "<lambda>", name |-> name]

\* lambda x: x.upper() and lambda x: "test" + x
Lambdas == {Lambda("upper"), Lambda("test")}
call_lambda(func, x) ==
    IF func.name = "upper"
    THEN IF x.t = "str" THEN upper_filter(x)
         ELSE Err("AttributeError", <<"object has no attribute 'upper'">>)
    ELSE IF x.t = "str" THEN StrV(<<"test">> \o x.v)
         ELSE Err("TypeError", <<"can only concatenate str">>)

\* func(data, *args, **kwargs)
call_function(func, x, n) ==
    IF func.module = "<lambda>" THEN call_lambda(func, x)
    ELSE IF func.name = "sort" THEN filters_sort_filter(x)
    ELSE IF func.name = "cumul" THEN cumul_filter(x)
    ELSE call_filter(func.name, x, n)

\* the names the decorator registers in default_filters, in order
DefaultNames ==
    <<"keys", "values", "sort", "reverse", "lower", "upper", "str", "int",
      "selfie", "first", "last", "head", "tail", "sum", "cumul",
      "format_number", "format_currency", "format_percent", "format_date",
      "fetch">>

\* default_filters._functions once the module is imported
DefaultFunctions ==
    [i \in 1..Len(DefaultNames) |->
        Entry(DefaultNames[i], FilterFunction(DefaultNames[i]))]

\* the object default_filters
default_filters == 1

\* Filters.register: self._functions[name] = function
register(fs, name, function) == DictSet(fs, name, function)

\* a variant of deepcopy: the same object is handed back
SameObject(objects, self) == [objects |-> objects, ref |-> self]

\* deepcopy(self): a new object with a _functions dict of its own; the
\* functions themselves are shared
deepcopy(objects, self) ==
    [objects |-> Append(objects, objects[self]), ref |-> Len(objects) + 1]

\* the function has a positional int parameter after the first
HasIntParameter(func) ==
    func.module = "refill.filters" /\ func.name \in {"head", "tail"}

\* Filters.apply from the signature on: coerce the arguments the signature
\* has room for, call, translate KeyError and TypeError
ApplyFunction(func, x, name, arguments) ==
    IF func = FilterFunction("format_currency")
    THEN Translate(name, format_currency_filter(x, CurrencyOf(arguments), locale))
    ELSE IF HasIntParameter(func) /\ Len(arguments) >= 1
    THEN IF IsNumeral(arguments[1])
         THEN Translate(name, call_function(func, x, NumeralValue(arguments[1])))
         ELSE Err("ValueError", <<"invalid literal for int()">>)
    ELSE Translate(name, call_function(func, x, 1))

\* Filters.apply: func = self._functions[name] comes before the try
FiltersApply(fs, x, name, arguments) ==
    IF ~HasKey(fs, name) THEN Err("KeyError", <<name>>)
    ELSE ApplyFunction(DictGet(fs, name), x, name, arguments)

\* no call of Filters.apply yet
NoCall == [self |-> 0, filters |-> <<>>]

----------------------------------------------------------------------------
(* select_data *)

\* selected[field] of a dict
Subscript(d, field) ==
    IF HasKey(d, Name(field)) THEN DictGet(d, Name(field))
    ELSE Err("KeyError", <<field>>)

\* item[field] for an item of a list: only a dict takes a str subscript
ItemField(item, field) ==
    IF item.t = "dict" THEN Subscript(item.v, field)
    ELSE Err("TypeError", <<"indices must be integers", "not subscriptable">>)

\* a variant of select_field: the items of a list are taken last to first
select_field_reversed(selected, field) ==
    IF selected.t = "list"
    THEN ListOf([i \in 1..Len(selected.v) |->
                    ItemField(selected.v[Len(selected.v) + 1 - i], field)])
    ELSE IF selected.t = "dict" THEN Subscript(selected.v, field)
    ELSE Err("ValueError", <<"unexpected type in given data">>)

\* one turn of `for field in selection.fields`
select_field(selected, field) ==
    IF selected.t = "list"
    THEN ListOf([i \in 1..Len(selected.v) |-> ItemField(selected.v[i], field)])
    ELSE IF selected.t = "dict" THEN Subscript(selected.v, field)
    ELSE Err("ValueError", <<"unexpected type in given data">>)

\* selected = data; for field in selection.fields: ...
RECURSIVE select_fields(_, _)
ThenFields(selected, fields) ==
    IF IsErr(selected) THEN selected ELSE select_fields(selected, fields)
select_fields(selected, fields) ==
    IF Len(fields) = 0 THEN selected
    ELSE ThenFields(select_field(selected, Head(fields)), Tail(fields))

\* a variant of AppendTo: x[k] = [v], the last value only
AssignTo(x, k, v) == DictSet(x, k, ListV(<<v>>))

\* x[k].append(v) on a defaultdict(list)
AppendTo(x, k, v) ==
    IF HasKey(x, k)
    THEN DictSet(x, k, ListV(Append(DictGet(x, k).v, v)))
    ELSE Append(x, Entry(k, ListV(<<v>>)))

\* combine_into_dict(x, y): for k, v in y.items(): x[k].append(v)
RECURSIVE combine_into_dict(_, _)
combine_into_dict(x, y) ==
    IF Len(y) = 0 THEN x
    ELSE combine_into_dict(AppendTo(x, y[1].k, y[1].v), Tail(y))

\* functools.reduce(combine_into_dict, selecteds, defaultdict(list))
RECURSIVE ReduceIntoDict(_, _)
ReduceIntoDict(x, selecteds) ==
    IF Len(selecteds) = 0 THEN x
    ELSE ReduceIntoDict(combine_into_dict(x, selecteds[1].v), Tail(selecteds))

\* the three-way choice after the selections are made
combine(selecteds) ==
    IF Len(selecteds) = 1 THEN selecteds[1]
    ELSE IF \A i \in 1..Len(selecteds) : selecteds[i].t = "dict"
         THEN DictV(ReduceIntoDict(<<>>, selecteds))
    ELSE ListV(selecteds)

\* lookup_table[parsed.lookup]; lookup_table is None when not given
lookup(lookup_table, name) ==
    IF lookup_table.t = "none"
    THEN Err("ValueError", <<"lookup table required but not provided">>)
    ELSE Subscript(lookup_table.v, name)

\* the selections of the selector, each made from the data
Selecteds(d, selections) ==
    [i \in 1..Len(selections) |-> select_fields(d, selections[i])]

CombineOrRaise(selecteds) ==
    IF HasErr(selecteds) THEN FirstErr(selecteds) ELSE combine(selecteds)

\* select_data up to its filter loop: the lookup or the combined selections
select_body(d, parsed, lookup_table) ==
    IF parsed.lookup # "" THEN lookup(lookup_table, parsed.lookup)
    ELSE CombineOrRaise(Selecteds(d, parsed.selections))

ParseException == Err("ParseException", <<"Expected end of text">>)

\* select_data after parse_selector
select_parsed(d, parsed, lookup_table) ==
    IF ~parsed.ok THEN ParseException
    ELSE ThenFilters(select_body(d, parsed, lookup_table), parsed.filters)

select_data(d, toks, lookup_table) ==
    select_parsed(d, parse_selector(toks), lookup_table)

\* the calls of urlopen that select_data makes: none without a fetch filter
select_opened(d, toks, lookup_table) ==
    IF \A i \in 1..Len(toks) : toks[i] # "fetch" THEN <<>>
    ELSE IF ~parse_selector(toks).ok THEN <<>>
    ELSE opened_by(select_body(d, parse_selector(toks), lookup_table),
                   parse_selector(toks).filters)

----------------------------------------------------------------------------
(* apply_spec, one step per spec entry; a nested spec is a nested call *)

\* key.endswith("?")
EndsWithMark(key) == Len(key) > 0 /\ key[Len(key)] = "?"

\* the key a selector leaf is stored under: key[:-1] when it ends with "?"
StoreKey(key) == IF EndsWithMark(key) THEN SubSeq(key, 1, Len(key) - 1) ELSE key

\* variants of Ignored: an except clause that always re-raises, and one that
\* catches every exception of an optional key
NeverIgnored(exc, ignore_key_errors) == FALSE
AnyIgnored(exc, ignore_key_errors) == ignore_key_errors

\* except KeyError: if not ignore_key_errors: raise
Ignored(exc, ignore_key_errors) == IsKeyError(exc) /\ ignore_key_errors

\* a variant of NewResult: the nested call starts from its caller's result
InheritedResult(parent) == parent

\* result: JSONObject = {} of a call made from an enclosing call's frame
NewResult(parent) == <<>>

\* a variant of LookupTable: every leaf is evaluated against an empty table
EmptyTable(frame) == DictV(<<>>)

\* a variant of LookupTable: one table at module level, which the call that
\* ran last has left as its own
SharedTable(frame) ==
    IF other.t = "call" /\ other.stack # <<>>
    THEN DictV(other.stack[Len(other.stack)].result)
    ELSE DictV(frame.result)

\* lookup_table=result
LookupTable(frame) == DictV(frame.result)

\* a call of apply_spec: its spec's items, the position of its loop, its result
Frame(items, path, parent) ==
    [items |-> items, i |-> 1, result |-> NewResult(parent), path |-> path]

Top == stack[Len(stack)]
Cur == Top.items[Top.i]
InLoop == status = "running" /\ Len(stack) > 0 /\ Top.i <= Len(Top.items)

\* a variant of Raise: the exception is swallowed and the loop goes on
CarryOn(exc) ==
    /\ stack' = [stack EXCEPT ![Len(stack)].i = @ + 1]
    /\ UNCHANGED <<status, outcome>>

\* raise: the exception leaves every active call
Raise(exc) ==
    /\ status' = "raised"
    /\ outcome' = exc
    /\ stack' = <<>>

\* result[key] = value, or the except clause
StoreOrRaise(key, ignore_key_errors, value) ==
    /\ log' = Append(log, [path |-> Top.path, i |-> Top.i, key |-> Cur.k,
                           value |-> value])
    /\ IF ~IsErr(value)
       THEN /\ stack' = [stack EXCEPT ![Len(stack)] =
                          [@ EXCEPT !.result = DictSet(@, key, value),
                                    !.i = @ + 1]]
            /\ UNCHANGED <<status, outcome>>
       ELSE IF Ignored(value, ignore_key_errors)
       THEN /\ stack' = [stack EXCEPT ![Len(stack)].i = @ + 1]
            /\ UNCHANGED <<status, outcome>>
       ELSE Raise(value)

\* isinstance(value, str): evaluate the selector, then store, skip or raise
EvalLeaf ==
    /\ InLoop
    /\ Cur.v.t = "str"
    /\ StoreOrRaise(StoreKey(Cur.k), EndsWithMark(Cur.k),
                    select_data(data, Cur.v.v, LookupTable(Top)))
    /\ opened' = opened \o select_opened(data, Cur.v.v, LookupTable(Top))
    /\ UNCHANGED <<spec, data, selector, table>>
    /\ UNCHANGED registryVars
    /\ UNCHANGED <<other, heap>>

\* isinstance(value, dict): result[key] = apply_spec(value, data, ...), the call
Descend ==
    /\ InLoop
    /\ Cur.v.t = "dict"
    /\ stack' = Append(stack, Frame(Cur.v.v, Append(Top.path, Top.i), Top.result))
    /\ UNCHANGED <<spec, data, status, outcome, log, selector, table>>
    /\ UNCHANGED registryVars
    /\ UNCHANGED <<opened, other, heap>>

\* a variant of ShapeError: the value is passed over, the loop goes on
SkipValue ==
    /\ InLoop
    /\ Cur.v.t \notin {"str", "dict"}
    /\ stack' = [stack EXCEPT ![Len(stack)].i = @ + 1]
    /\ UNCHANGED <<spec, data, status, outcome, log, selector, table>>
    /\ UNCHANGED registryVars
    /\ UNCHANGED <<opened, other, heap>>

\* else: raise ValueError(unexpected type in given data)
ShapeError ==
    /\ InLoop
    /\ Cur.v.t \notin {"str", "dict"}
    /\ Raise(Err("ValueError", <<"unexpected type in given data">>))
    /\ UNCHANGED <<spec, data, log, selector, table>>
    /\ UNCHANGED registryVars
    /\ UNCHANGED <<opened, other, heap>>

\* return result: to the caller's result[key] = ..., or out of the outer call
Return ==
    /\ status = "running"
    /\ Len(stack) > 0
    /\ Top.i > Len(Top.items)
    /\ IF Len(stack) = 1
       THEN /\ status' = "returned"
            /\ outcome' = DictV(Top.result)
            /\ stack' = <<>>
       ELSE LET caller == stack[Len(stack) - 1]
                key == caller.items[caller.i].k
            IN  /\ stack' = [SubSeq(stack, 1, Len(stack) - 1)
                              EXCEPT ![Len(stack) - 1] =
                                [@ EXCEPT !.result = DictSet(@, key, DictV(Top.result)),
                                          !.i = @ + 1]]
                /\ UNCHANGED <<status, outcome>>
    /\ UNCHANGED <<spec, data, log, selector, table>>
    /\ UNCHANGED registryVars
    /\ UNCHANGED <<opened, other, heap>>

----------------------------------------------------------------------------
(* The inputs *)

\* the entries of a spec, nested ones included, ...
MaxSize == 3
\* ... and of a spec whose leaves are drawn from all of Selectors
MaxWide == 2

\* spec keys: plain, optional, hidden
Keys == {<<"a">>, <<"b">>, <<"b", "?">>, <<"~", "a">>}

\* selector leaves of the larger specs: a data key and a lookup
CoreSelectors == {<<"x">>, <<"z">>, <<"=", "a">>}

\* selector leaves: data keys, a field of a scalar, a field absent from a list
\* item, lookups, filters, a bad filter argument, arithmetic, trailing garbage
Selectors ==
    CoreSelectors \cup
    {<<"x", ".", "y">>, <<"m", ".", "y">>, <<"=", "a", "|", "upper">>,
     <<"x", "|", "keys">>, <<"x", "|", "head", "(", "zz", ")">>,
     <<"=", "a", "/", "=", "b">>, <<"x", ")">>}

\* the values of a spec that are not nested specs: selectors and a number
LeafValues(n) ==
    IF n <= MaxWide THEN {StrV(s) : s \in Selectors} \cup {IntV(1)}
    ELSE {StrV(s) : s \in CoreSelectors}

\* the entries that count for s in a spec of n: a leaf or an empty nested spec
\* for 1, else a nested spec of s - 1 entries
RECURSIVE ItemsOfSize(_, _)
EntriesOfSize(s, n) ==
    IF s = 1
    THEN {Entry(k, v) : k \in Keys, v \in LeafValues(n) \cup {DictV(<<>>)}}
    ELSE {Entry(k, DictV(sub)) : k \in Keys, sub \in ItemsOfSize(s - 1, n)}

\* dicts (as item sequences, keys distinct) of exactly m entries in all
ItemsOfSize(m, n) ==
    IF m = 0 THEN {<<>>}
    ELSE UNION {
           {x \in {<<e>> \o rest : e \in EntriesOfSize(s, n),
                                   rest \in ItemsOfSize(m - s, n)} :
               ~HasKey(Tail(x), x[1].k)} : s \in 1..m }

\* the specs of at most MaxSize entries: a first entry and the items after it
IsSpecInput(value) ==
    \E n \in 0..MaxSize :
        \/ n = 0 /\ value = DictV(<<>>)
        \/ \E s \in 1..n : \E e \in EntriesOfSize(s, n) :
               \E rest \in ItemsOfSize(n - s, n) :
                   ~HasKey(rest, e.k) /\ value = DictV(<<e>> \o rest)

Data1 ==
    DictV(<<Entry(Name("x"), StrV(<<"a", "b">>)),
            Entry(Name("n"), IntV(3)),
            Entry(Name("m"), ListV(<<DictV(<<Entry(Name("y"), IntV(1))>>),
                                     DictV(<<Entry(Name("w"), IntV(2))>>)>>))>>)

Data2 ==
    DictV(<<Entry(Name("z"), IntV(7)),
            Entry(Name("m"), ListV(<<DictV(<<Entry(Name("y"), IntV(1))>>)>>))>>)

Datas == {Data1, Data2}

----------------------------------------------------------------------------
(* apply_spec(spec, data) *)

Init ==
    /\ IsSpecInput(spec)
    /\ data \in Datas
    /\ stack = <<Frame(spec.v, <<>>, <<>>)>>
    /\ status = "running"
    /\ outcome = NoneV
    /\ log = <<>>
    /\ selector = <<>>
    /\ table = NoneV
    /\ functions = <<DefaultFunctions>>
    /\ copied = 0
    /\ call = NoCall
    /\ target_cls = NoneV
    /\ opened = <<>>
    /\ other = NoneV
    /\ heap = <<>>

Next == EvalLeaf \/ Descend \/ ShapeError \/ Return

Spec == Init /\ [][Next]_vars

----------------------------------------------------------------------------
(* select_data(data, selector, lookup_table=table) *)

\* the fields of a dotted path
MaxPath == 2

Fields == {"x", "n", "numbers", "m", "l", "p", "y"}

\* f1.f2...fn as tokens, for n from 1 to MaxPath
RECURSIVE PathsOfLength(_)
PathsOfLength(n) ==
    IF n = 1 THEN {<<f>> : f \in Fields}
    ELSE {p \o <<".", f>> : p \in PathsOfLength(n - 1), f \in Fields}

Paths == UNION {PathsOfLength(n) : n \in 1..MaxPath}

\* the selections of a combine
MaxCombine == 3

\* f1,f2,...,fn as tokens, for n from 2 to MaxCombine
RECURSIVE CombinesOf(_)
CombinesOf(n) ==
    IF n = 1 THEN {<<f>> : f \in Fields}
    ELSE {c \o <<",", f>> : c \in CombinesOf(n - 1), f \in Fields}

Combines == UNION {CombinesOf(n) : n \in 2..MaxCombine}

\* (f1,...,fn)|sum
SummedCombines == {<<"(">> \o c \o <<")", "|", "sum">> : c \in Combines}

\* selectors of src/tests/test_spec.py (test_select_data, test_spec_functions)
TestSelectors ==
    {<<"numbers", "|", "first", "+", "numbers", "|", "last">>,
     <<"numbers", "|", "first", "/", "numbers", "|", "last">>,
     <<"(", "numbers", "|", "first", "+", "numbers", "|", "last", ")", "/",
       "numbers", "|", "last">>,
     <<"numbers", "|", "first", "+", "numbers", "|", "last", "*",
       "numbers", "|", "last">>,
     <<"=", "a", "/", "=", "b">>, <<"=", "a", "+", "=", "b">>,
     <<"=", "a", "-", "=", "b">>, <<"=", "a", "*", "=", "b">>,
     <<"=", "a", "|", "lower">>,
     <<"p", ".", "l", ".", "y">>, <<"m", ".", "l", ".", "y">>,
     <<"numbers", "|", "first">>, <<"numbers", "|", "last">>,
     <<"numbers", "|", "sum">>, <<"numbers", "|", "head", "(", "2", ")">>,
     <<"numbers", "|", "tail", "(", "2", ")", "|", "head", "(", "1", ")">>,
     <<"p", "|", "keys">>, <<"l", ".", "y", "|", "sum">>,
     <<"x", ",", "n", ",", "n">>, <<"numbers", ",", "numbers">>,
     <<"(", "p", ",", "p", ")", "|", "sum">>, <<"=", "a">>, <<"=", "zz">>,
     <<"x", "|", "nosuchfilter">>, <<"numbers", "|", "keys", "(", "1", ")">>,
     <<"numbers", "|", "head", "(", "1", ",", "2", ")">>,
     <<"numbers", "|", "head", "(", "zz", ")">>,
     <<"numbers", "|", "keys", "|", "keys">>, <<"p", "|", "keys", "|", "keys">>,
     <<"numbers", "|", "sort">>, <<"p", "|", "sort">>,
     <<"numbers", "|", "cumul">>,
     <<"numbers", "|", "format_currency", "(", "EUR", ")">>,
     <<"p", "|", "format_currency", "(", "EUR", ")">>,
     <<"n", "|", "format_currency", "(", "EUR", ")">>,
     <<"p", "|", "format_currency">>, <<"l", "|", "format_currency", "(", "EUR", ")">>,
     <<"x", ".", "n", ")">>, <<"x", ",", "n", "|", "sum">>,
     <<"numbers", "|", "head", "(", "1", ")", "!">>}

SelectData1 ==
    DictV(<<Entry(Name("x"), StrV(<<"a", "b">>)),
            Entry(Name("n"), IntV(3)),
            Entry(Name("numbers"), ListV(<<IntV(1), IntV(2), IntV(4)>>)),
            Entry(Name("m"), ListV(<<DictV(<<Entry(Name("y"), IntV(1))>>),
                                     DictV(<<Entry(Name("x"), IntV(2))>>)>>)),
            Entry(Name("l"), ListV(<<DictV(<<Entry(Name("y"), IntV(2))>>),
                                     DictV(<<Entry(Name("y"), IntV(1)),
                                             Entry(Name("x"), IntV(5))>>)>>)),
            Entry(Name("p"), DictV(<<Entry(Name("y"), IntV(10)),
                                     Entry(Name("x"), IntV(12))>>))>>)

SelectData2 ==
    DictV(<<Entry(Name("p"), DictV(<<Entry(Name("l"),
                ListV(<<DictV(<<Entry(Name("y"), StrV(<<"A">>))>>)>>))>>)),
            Entry(Name("l"), ListV(<<>>)),
            Entry(Name("y"), NoneV),
            Entry(Name("m"), ListV(<<DictV(<<Entry(Name("l"),
                DictV(<<Entry(Name("y"), IntV(1))>>))>>)>>))>>)

\* maps with keys in common, as stats.views and stats.conversions have
SelectData3 ==
    DictV(<<Entry(Name("x"), DictV(<<Entry(Name("y"), IntV(10)),
                                     Entry(Name("n"), IntV(12))>>)),
            Entry(Name("n"), DictV(<<Entry(Name("y"), IntV(1)),
                                     Entry(Name("n"), IntV(3))>>)),
            Entry(Name("p"), DictV(<<Entry(Name("l"), IntV(5)),
                                     Entry(Name("y"), IntV(7))>>)),
            Entry(Name("numbers"), ListV(<<IntV(4), IntV(1)>>)),
            Entry(Name("y"), IntV(3))>>)

SelectDatas == {SelectData1, SelectData2, SelectData3}

\* weight and height of test_spec_functions, bound as a and b
Table1 == DictV(<<Entry(Name("a"), IntV(80)), Entry(Name("b"), IntV(16))>>)

Tables == {NoneV, Table1, DictV(<<Entry(Name("a"), StrV(<<"A", "b">>))>>)}

\* every string of at most MaxTokens tokens over a few of each kind
MaxTokens == 4

Tokens == {"x", "n", "=", ".", ",", "|", "(", ")", "1", "!"}

RECURSIVE StringsOfLength(_)
StringsOfLength(n) ==
    IF n = 0 THEN {<<>>}
    ELSE {t \o <<tok>> : t \in StringsOfLength(n - 1), tok \in Tokens}

InitSelect ==
    /\ \/ /\ selector \in Paths \cup TestSelectors
          /\ data \in SelectDatas
          /\ table \in Tables
       \/ /\ \E n \in 0..MaxTokens : selector \in StringsOfLength(n)
          /\ data = SelectData3
          /\ table = Table1
       \/ /\ selector \in Combines \cup SummedCombines
          /\ data \in SelectDatas
          /\ table = NoneV
    /\ status = "selecting"
    /\ outcome = NoneV
    /\ spec = DictV(<<>>)
    /\ stack = <<>>
    /\ log = <<>>
    /\ functions = <<DefaultFunctions>>
    /\ copied = 0
    /\ call = NoCall
    /\ target_cls = NoneV
    /\ opened = <<>>
    /\ other = NoneV
    /\ heap = <<>>

\* return selected, or the exception
SelectResult(selected) ==
    /\ outcome' = selected
    /\ status' = IF IsErr(selected) THEN "raised" ELSE "returned"

Select ==
    /\ status = "selecting"
    /\ SelectResult(select_data(data, selector, table))
    /\ opened' = opened \o select_opened(data, selector, table)
    /\ UNCHANGED <<spec, data, stack, log, selector, table>>
    /\ UNCHANGED registryVars
    /\ UNCHANGED <<other, heap>>

NextSelect == Select

SpecSelect == InitSelect /\ [][NextSelect]_vars

----------------------------------------------------------------------------
(* validate_spec(spec, target_cls).  A type hint is a record: a scalar class *)
(* (str, int, float), Union[int, float], List[T], Dict[K, V], or a class     *)
(* with annotations (a TypedDict).                                           *)

ScalarHint(name) == [kind |-> "scalar", name |-> name, args |-> <<>>]
JSONNumber == [kind |-> "union", name |-> "Union",
               args |-> <<ScalarHint("int"), ScalarHint("float")>>]
ListHint(item) == [kind |-> "list", name |-> "List", args |-> <<item>>]
DictHint(key, value) == [kind |-> "dict", name |-> "Dict", args |-> <<key, value>>]
ClassHint(name, annotations) ==
    [kind |-> "class", name |-> name, args |-> <<>>, annotations |-> annotations]

\* typing_extensions.get_args and get_origin
get_args(hint) == hint.args
get_origin(hint) == IF hint.kind \in {"list", "dict", "union"} THEN hint.kind ELSE "None"

\* typing.get_type_hints: the annotations of a class (none for str, int,
\* float), TypeError for what is no class
get_type_hints(cls) ==
    IF cls.kind = "class" THEN DictV(cls.annotations)
    ELSE IF cls.kind = "scalar" THEN DictV(<<>>)
    ELSE Err("TypeError", <<"is not a module, class, method, or function">>)

\* all(arg in (str, int, float, JSONNumber) for arg in args)
AllScalar(args) ==
    \A i \in 1..Len(args) : args[i].kind = "scalar" \/ args[i] = JSONNumber

AssertionError == Err("AssertionError", <<>>)

\* set(hints.keys()).symmetric_difference(set(spec.keys())), hints' side first
KeysOnlyIn(d, e) == SelectSeq(DictKeys(d), LAMBDA k : ~HasKey(e, k))
symmetric_difference(hints, items) == KeysOnlyIn(hints, items) \o KeysOnlyIn(items, hints)

KeysError(diff) ==
    [t |-> "err", v |-> <<"ValueError", <<"missing and/or superfluous key(s)">>, diff>>]

\* the first exception of the checks made in order, None when there is none
FirstRaised(checks) == IF HasErr(checks) THEN FirstErr(checks) ELSE NoneV

RECURSIVE validate_spec(_, _)

\* one value of a sub-spec that is a dict, against the value type of the hint
validate_value(value, value_hint) ==
    IF value.t = "str"
    THEN IF AllScalar(get_args(value_hint)) THEN NoneV ELSE AssertionError
    ELSE validate_spec(value, value_hint)

\* one turn of `for name, sub_spec in spec.items()`
validate_item(sub_spec, hint) ==
    IF sub_spec.t = "str"
    THEN IF AllScalar(get_args(hint)) THEN NoneV ELSE AssertionError
    ELSE IF get_origin(hint) = "dict"
    THEN IF sub_spec.t # "dict" THEN AssertionError
         ELSE FirstRaised([i \in 1..Len(sub_spec.v) |->
                              validate_value(sub_spec.v[i].v, get_args(hint)[2])])
    ELSE Err("ValueError", <<"unexpected type hint encountered">>)

\* validate_spec once the hints are there
validate_against(value, hints) ==
    IF IsErr(hints) THEN hints
    ELSE IF value.t # "dict"
    THEN Err("AttributeError", <<"object has no attribute 'keys'">>)
    ELSE IF symmetric_difference(hints.v, value.v) # <<>>
    THEN KeysError(symmetric_difference(hints.v, value.v))
    ELSE FirstRaised([i \in 1..Len(value.v) |->
                         validate_item(value.v[i].v, DictGet(hints.v, value.v[i].k))])

validate_spec(value, cls) == validate_against(value, get_type_hints(cls))

\* the specs handed to validate_spec: their leaves are of CoreSelectors
IsValidateInput(value) ==
    \E n \in 0..MaxSize : \E items \in ItemsOfSize(n, MaxWide + 1) :
        value = DictV(items)

\* target classes, after RightDummyTarget and WrongDummyTarget
TargetA == ClassHint("TargetA", <<Entry(Name("a"), ScalarHint("str"))>>)
TargetB == ClassHint("TargetB", <<Entry(Name("b"), JSONNumber)>>)
TargetAB ==
    ClassHint("TargetAB",
              <<Entry(Name("a"), DictHint(ScalarHint("str"), ScalarHint("str"))),
                Entry(Name("b"), DictHint(ScalarHint("str"), TargetA))>>)
TargetBA ==
    ClassHint("TargetBA",
              <<Entry(Name("b"), DictHint(ScalarHint("str"),
                                          DictHint(ScalarHint("str"), JSONNumber))),
                Entry(Name("a"), ListHint(ScalarHint("str")))>>)
TargetNested ==
    ClassHint("TargetNested",
              <<Entry(Name("a"), ScalarHint("int")),
                Entry(Name("b"), DictHint(ScalarHint("str"), TargetBA))>>)

Targets == {TargetA, TargetB, TargetAB, TargetBA, TargetNested}

InitValidate ==
    /\ IsValidateInput(spec)
    /\ target_cls \in Targets
    /\ status = "validating"
    /\ outcome = NoneV
    /\ data = NoneV
    /\ stack = <<>>
    /\ log = <<>>
    /\ selector = <<>>
    /\ table = NoneV
    /\ functions = <<DefaultFunctions>>
    /\ copied = 0
    /\ call = NoCall
    /\ opened = <<>>
    /\ other = NoneV
    /\ heap = <<>>

\* return None, or the exception
ValidateResult(raised) ==
    /\ outcome' = raised
    /\ status' = IF IsErr(raised) THEN "raised" ELSE "returned"

Validate ==
    /\ status = "validating"
    /\ ValidateResult(validate_spec(spec, target_cls))
    /\ UNCHANGED <<spec, data, stack, log, selector, table, functions, copied,
                   call, target_cls>>
    /\ UNCHANGED <<opened, other, heap>>

NextValidate == Validate

SpecValidate == InitValidate /\ [][NextValidate]_vars

----------------------------------------------------------------------------
(* Filler.__init__(spec, data) of src/refill/core.py, a step per statement *)

\* a variant of Params_validate_spec: the spec is taken as it is
Unvalidated(sp, cls) == NoneV

\* self.params_cls.validate_spec(spec, globalns, localns), which is
\* spec.validate(cls, globalns, localns)
Params_validate_spec(sp, cls) == validate_spec(sp, cls)

\* the keyword arguments of Spec.apply, and those __init__ calls it with
ApplyKeywords == {"locale", "urlopen"}
CalledKeywords == {"filters", "locale", "urlopen"}

InitFiller ==
    /\ IsValidateInput(spec)
    /\ target_cls \in Targets
    /\ data = Data1
    /\ status = "constructing"
    /\ outcome = NoneV
    /\ stack = <<>>
    /\ log = <<>>
    /\ selector = <<>>
    /\ table = NoneV
    /\ functions = <<DefaultFunctions>>
    /\ copied = 0
    /\ call = NoCall
    /\ opened = <<>>
    /\ other = NoneV
    /\ heap = <<>>

\* the first statement: validation, whose exception leaves the constructor
FillerValidate ==
    /\ status = "constructing"
    /\ IF IsErr(Params_validate_spec(spec, target_cls))
       THEN /\ status' = "raised"
            /\ outcome' = Params_validate_spec(spec, target_cls)
       ELSE /\ status' = "validated"
            /\ UNCHANGED outcome
    /\ UNCHANGED <<spec, data, stack, log, selector, table, functions, copied,
                   call, target_cls>>
    /\ UNCHANGED <<opened, other, heap>>

\* the second statement: spec.apply(data, filters=filters, locale=locale,
\* urlopen=urlopen); a keyword that Spec.apply does not have is a TypeError,
\* otherwise apply_spec starts on the spec
FillerApply ==
    /\ status = "validated"
    /\ IF CalledKeywords \subseteq ApplyKeywords
       THEN /\ status' = "running"
            /\ stack' = <<Frame(spec.v, <<>>, <<>>)>>
            /\ UNCHANGED outcome
       ELSE /\ status' = "raised"
            /\ outcome' = Err("TypeError", <<"unexpected keyword argument">>)
            /\ UNCHANGED stack
    /\ UNCHANGED <<spec, data, log, selector, table, functions, copied,
                   call, target_cls>>
    /\ UNCHANGED <<opened, other, heap>>

NextFiller == FillerValidate \/ FillerApply

SpecFiller == InitFiller /\ [][NextFiller]_vars

----------------------------------------------------------------------------
(* c = default_filters.copy(); c.register(name, f) ...; then calls of apply, *)
(* each on the value the one before it returned                             *)

\* the length of a list handed to a filter, and its numbers
MaxList == 3
Numbers == 0..2

RECURSIVE ListsOfLength(_)
ListsOfLength(n) ==
    IF n = 0 THEN {<<>>}
    ELSE {Append(s, IntV(i)) : s \in ListsOfLength(n - 1), i \in Numbers}

NumberLists == UNION {{ListV(s) : s \in ListsOfLength(n)} : n \in 0..MaxList}

\* maps of numbers, their keys in and out of order
NumberMaps ==
    {DictV(<<>>)} \cup
    {DictV(<<Entry(<<k>>, IntV(i))>>) : k \in {"b"}, i \in Numbers} \cup
    {DictV(<<Entry(<<k[1]>>, IntV(i)), Entry(<<k[2]>>, IntV(2))>>) :
        k \in {<<"b", "a">>, <<"a", "b">>, <<"B", "a">>}, i \in Numbers}

\* a str, a number, a list of strs, a list that cannot be sorted
OtherValues ==
    {StrV(<<"a", "B">>), IntV(2),
     ListV(<<StrV(<<"b">>), StrV(<<"a", "b">>), StrV(<<"a">>)>>),
     ListV(<<IntV(1), StrV(<<"a">>)>>)}

ApplyValues == NumberLists \cup NumberMaps \cup OtherValues

\* a filter of a selector: its name and its arguments as written
Filter(name, arguments) == [name |-> name, arguments |-> arguments]

FilterCalls ==
    {Filter(name, <<>>) : name \in {"keys", "sort", "cumul", "last", "sum",
                                    "upper", "test", "nosuchfilter"}} \cup
    {Filter("head", <<"2">>), Filter("head", <<"zz">>),
     Filter("keys", <<"1">>), Filter("head", <<"1", "2">>)} \cup
    {Filter(name, arguments) : name \in {"head", "tail"},
                               arguments \in {<<>>, <<"0">>, <<"2">>}} \cup
    {Filter(name, <<>>) : name \in {"first", "lower", "values", "reverse"}}

\* the calls of register on the copy, and of apply in a row
MaxRegisters == 2
MaxPipeline == 2

InitFilters ==
    /\ functions = <<DefaultFunctions>>
    /\ copied = 0
    /\ call = NoCall
    /\ status = "idle"
    /\ outcome = NoneV
    /\ data = NoneV
    /\ log = <<>>
    /\ spec = DictV(<<>>)
    /\ stack = <<>>
    /\ selector = <<>>
    /\ table = NoneV
    /\ target_cls = NoneV
    /\ opened = <<>>
    /\ other = NoneV
    /\ heap = <<>>

\* c = default_filters.copy()
CopyResult(r) ==
    /\ functions' = r.objects
    /\ copied' = r.ref

Copy ==
    /\ copied = 0
    /\ call = NoCall
    /\ CopyResult(deepcopy(functions, default_filters))
    /\ UNCHANGED <<spec, data, stack, status, outcome, log, selector, table,
                   call, target_cls>>
    /\ UNCHANGED <<opened, other, heap>>

\* c.register(name, function)
Register ==
    /\ copied # 0
    /\ call = NoCall
    /\ Len(log) < MaxRegisters
    /\ \E name \in {"test", "keys"} : \E function \in Lambdas :
           /\ functions' = [functions EXCEPT
                               ![copied] = register(@, name, function)]
           /\ log' = Append(log, [name |-> name, function |-> function])
    /\ UNCHANGED <<spec, data, stack, status, outcome, selector, table,
                   copied, call, target_cls>>
    /\ UNCHANGED <<opened, other, heap>>

\* return the value, or the exception
ApplyResult(value) ==
    /\ outcome' = value
    /\ status' = IF IsErr(value) THEN "raised" ELSE "returned"

\* default_filters.apply(x, name, arguments) or c.apply(x, name, arguments)
Apply ==
    /\ call = NoCall
    /\ \E self \in {default_filters, copied} \ {0} :
       \E x \in ApplyValues : \E f \in FilterCalls :
           /\ call' = [self |-> self, filters |-> <<f>>]
           /\ data' = x
           /\ ApplyResult(FiltersApply(functions[self], x, f.name, f.arguments))
    /\ UNCHANGED <<spec, stack, log, selector, table, functions, copied,
                   target_cls>>
    /\ UNCHANGED <<opened, other, heap>>

\* default_filters.apply(value, name, arguments) on the value returned
ApplyAgain ==
    /\ call # NoCall
    /\ call.self = default_filters
    /\ copied = 0
    /\ status = "returned"
    /\ Len(call.filters) < MaxPipeline
    /\ \E f \in FilterCalls :
           /\ call' = [call EXCEPT !.filters = Append(@, f)]
           /\ ApplyResult(FiltersApply(functions[call.self], outcome,
                                       f.name, f.arguments))
    /\ UNCHANGED <<spec, data, stack, log, selector, table, functions, copied,
                   target_cls>>
    /\ UNCHANGED <<opened, other, heap>>

NextFilters == Copy \/ Register \/ Apply \/ ApplyAgain

SpecFilters == InitFilters /\ [][NextFilters]_vars

----------------------------------------------------------------------------
(* Two calls of apply_spec, each in a thread of its own, on specs and data   *)
(* of their own.  One thread runs at a time; the variables of apply_spec are *)
(* those of the running thread, other holds the call of the suspended one.   *)

\* the call of the running thread, as it is kept while the other one runs
Suspended ==
    [t |-> "call", spec |-> spec, data |-> data, stack |-> stack,
     status |-> status, outcome |-> outcome, log |-> log]

\* the specs of the two calls: lookups bound and unbound, an optional key, a
\* nested spec, a value that is no selector
ThreadSpecs ==
    {DictV(<<Entry(<<"a">>, StrV(<<"x">>)), Entry(<<"b">>, StrV(<<"=", "a">>))>>),
     DictV(<<Entry(<<"a">>, StrV(<<"z">>)), Entry(<<"b">>, StrV(<<"=", "a">>))>>),
     DictV(<<Entry(<<"b">>, StrV(<<"=", "a">>))>>),
     DictV(<<Entry(<<"b", "?">>, StrV(<<"=", "a">>)),
             Entry(<<"a">>, StrV(<<"m", ".", "y">>))>>),
     DictV(<<Entry(<<"a">>, DictV(<<Entry(<<"b">>, StrV(<<"x">>)),
                                    Entry(<<"a">>, StrV(<<"=", "b">>))>>)),
             Entry(<<"b">>, StrV(<<"=", "a">>))>>),
     DictV(<<Entry(<<"a">>, StrV(<<"x">>)), Entry(<<"b">>, IntV(1))>>)}

InitThreads ==
    /\ spec \in ThreadSpecs
    /\ data \in Datas
    /\ stack = <<Frame(spec.v, <<>>, <<>>)>>
    /\ status = "running"
    /\ outcome = NoneV
    /\ log = <<>>
    /\ \E sp \in ThreadSpecs : \E d \in Datas :
           other = [t |-> "call", spec |-> sp, data |-> d,
                    stack |-> <<Frame(sp.v, <<>>, <<>>)>>,
                    status |-> "running", outcome |-> NoneV, log |-> <<>>]
    /\ selector = <<>>
    /\ table = NoneV
    /\ functions = <<DefaultFunctions>>
    /\ copied = 0
    /\ call = NoCall
    /\ target_cls = NoneV
    /\ opened = <<>>
    /\ heap = <<>>

\* the running thread is suspended between two steps of its loop and the
\* other one goes on
Switch ==
    /\ other.status = "running"
    /\ other' = Suspended
    /\ spec' = other.spec
    /\ data' = other.data
    /\ stack' = other.stack
    /\ status' = other.status
    /\ outcome' = other.outcome
    /\ log' = other.log
    /\ UNCHANGED <<selector, table, opened, heap>>
    /\ UNCHANGED registryVars

NextThreads == EvalLeaf \/ Descend \/ ShapeError \/ Return \/ Switch

SpecThreads == InitThreads /\ [][NextThreads]_vars

----------------------------------------------------------------------------
(* apply_spec(spec, data) over specs whose leaves fetch *)

\* the entries of a spec whose leaves fetch, nested ones included
MaxFetch == 3

FetchKeys == {<<"a">>, <<"b", "?">>}

\* a URL, a list with a URL that fails to open, a list that opens, what an
\* earlier leaf kept, a URL left as it is, a missing key, a number
FetchSelectors ==
    {<<"x", "|", "fetch">>, <<"u", "|", "fetch">>, <<"v", "|", "fetch">>,
     <<"=", "a", "|", "fetch">>, <<"x">>, <<"w">>, <<"n", "|", "fetch">>}

DataUrls ==
    DictV(<<Entry(Name("x"), StrV(<<"a", "b">>)),
            Entry(Name("u"), ListV(<<StrV(<<"e", "f">>), StrV(<<"c", "d">>),
                                     StrV(<<"a", "b">>)>>)),
            Entry(Name("v"), ListV(<<StrV(<<"a", "b">>), StrV(<<"e", "f">>)>>)),
            Entry(Name("a"), StrV(<<"g", "h">>)),
            Entry(Name("n"), IntV(3))>>)

RECURSIVE FetchItems(_)
FetchEntries(s) ==
    IF s = 1
    THEN {Entry(k, v) : k \in FetchKeys,
                        v \in {StrV(t) : t \in FetchSelectors}
                              \cup {IntV(1), DictV(<<>>)}}
    ELSE {Entry(k, DictV(sub)) : k \in FetchKeys, sub \in FetchItems(s - 1)}

FetchItems(m) ==
    IF m = 0 THEN {<<>>}
    ELSE UNION {
           {x \in {<<e>> \o rest : e \in FetchEntries(s),
                                   rest \in FetchItems(m - s)} :
               ~HasKey(Tail(x), x[1].k)} : s \in 1..m }

InitFetch ==
    /\ \E m \in 0..MaxFetch : \E items \in FetchItems(m) : spec = DictV(items)
    /\ data = DataUrls
    /\ stack = <<Frame(spec.v, <<>>, <<>>)>>
    /\ status = "running"
    /\ outcome = NoneV
    /\ log = <<>>
    /\ selector = <<>>
    /\ table = NoneV
    /\ functions = <<DefaultFunctions>>
    /\ copied = 0
    /\ call = NoCall
    /\ target_cls = NoneV
    /\ opened = <<>>
    /\ other = NoneV
    /\ heap = <<>>

SpecFetch == InitFetch /\ [][Next]_vars

----------------------------------------------------------------------------
(* apply_spec and select_data on objects with identity.  heap holds the      *)
(* lists and dicts in memory, an object's place in it being its identity; a  *)
(* cell is a number or a string, or the reference of an object.  What a      *)
(* statement of the source creates is put at a new place, what it hands on   *)
(* keeps its place, and what it changes in place is changed here at its      *)
(* place.                                                                    *)

Ref(a) == [t |-> "ref", v |-> a]

\* what a step gives: the memory after it, and its cell or its exception
Got(h, cell) == [heap |-> h, cell |-> cell]

\* a new object
Alloc(h, obj) == Got(Append(h, obj), Ref(Len(h) + 1))

\* the object a cell stands for
Peek(h, cell) == IF cell.t = "ref" THEN h[cell.v] ELSE cell

\* the same, the items of a list being looked at as well
View(h, cell) ==
    IF Peek(h, cell).t = "list"
    THEN ListV([i \in 1..Len(Peek(h, cell).v) |-> Peek(h, Peek(h, cell).v[i])])
    ELSE Peek(h, cell)

\* x.values() of a dict
Held(d) == [i \in 1..Len(d) |-> d[i].v]

\* a value put in memory, every list and dict of it an object of its own
RECURSIVE Store(_, _), StoreAll(_, _)
StoreAll(got, values) ==
    IF Len(values) = 0 THEN got
    ELSE StoreAll([heap |-> Store(got.heap, Head(values)).heap,
                   cell |-> Append(got.cell, Store(got.heap, Head(values)).cell)],
                  Tail(values))

Store(h, x) ==
    IF x.t = "list"
    THEN Alloc(StoreAll(Got(h, <<>>), x.v).heap,
               ListV(StoreAll(Got(h, <<>>), x.v).cell))
    ELSE IF x.t = "dict"
    THEN Alloc(StoreAll(Got(h, <<>>), Held(x.v)).heap,
               DictV([i \in 1..Len(x.v) |->
                         Entry(x.v[i].k,
                               StoreAll(Got(h, <<>>), Held(x.v)).cell[i])]))
    ELSE Got(h, x)

\* the value that a cell holds
RECURSIVE Load(_, _)
Load(h, cell) ==
    IF cell.t # "ref" THEN cell
    ELSE IF h[cell.v].t = "list"
    THEN ListV([i \in 1..Len(h[cell.v].v) |-> Load(h, h[cell.v].v[i])])
    ELSE DictV([i \in 1..Len(h[cell.v].v) |->
                  Entry(h[cell.v].v[i].k, Load(h, h[cell.v].v[i].v))])

\* one turn of `for field in selection.fields`: the list comprehension makes
\* a list, selected[field] hands on what the dict holds
select_field_at(h, cell, field) ==
    IF IsErr(select_field(View(h, cell), field)) \/ Peek(h, cell).t # "list"
    THEN Got(h, select_field(View(h, cell), field))
    ELSE Alloc(h, select_field(View(h, cell), field))

RECURSIVE select_fields_at(_, _)
select_fields_at(got, fields) ==
    IF IsErr(got.cell) \/ Len(fields) = 0 THEN got
    ELSE select_fields_at(select_field_at(got.heap, got.cell, Head(fields)),
                          Tail(fields))

\* selecteds.append(selected) for each selection, up to the first exception
RECURSIVE selecteds_at(_, _, _)
selecteds_at(got, d, selections) ==
    IF HasErr(got.cell) \/ Len(selections) = 0 THEN got
    ELSE selecteds_at(
             [heap |-> select_fields_at(Got(got.heap, d), Head(selections)).heap,
              cell |-> Append(got.cell,
                              select_fields_at(Got(got.heap, d),
                                               Head(selections)).cell)],
             d, Tail(selections))

\* x.append(y): the list x is changed in place
append_at(h, x, y) == [h EXCEPT ![x.v] = ListV(Append(@.v, y))]

\* x[k].append(v) on the defaultdict(list) x: a missing key gets a new list
append_to_at(h, x, k, v) ==
    IF HasKey(h[x.v].v, k) THEN append_at(h, DictGet(h[x.v].v, k), v)
    ELSE [Append(h, ListV(<<v>>)) EXCEPT
             ![x.v] = DictV(Append(@.v, Entry(k, Ref(Len(h) + 1))))]

\* combine_into_dict(x, y)
RECURSIVE combine_into_dict_at(_, _, _)
combine_into_dict_at(h, x, y) ==
    IF Len(y) = 0 THEN h
    ELSE combine_into_dict_at(append_to_at(h, x, y[1].k, y[1].v), x, Tail(y))

\* functools.reduce(combine_into_dict, selecteds, defaultdict(list))
RECURSIVE reduce_into_dict_at(_, _)
reduce_into_dict_at(x, selecteds) ==
    IF Len(selecteds) = 0 THEN x
    ELSE reduce_into_dict_at(
             Got(combine_into_dict_at(x.heap, x.cell,
                                      Peek(x.heap, Head(selecteds)).v),
                 x.cell),
             Tail(selecteds))

\* functools.reduce(combine_into_list, selecteds, [])
RECURSIVE reduce_into_list_at(_, _)
reduce_into_list_at(x, selecteds) ==
    IF Len(selecteds) = 0 THEN x
    ELSE reduce_into_list_at(Got(append_at(x.heap, x.cell, Head(selecteds)),
                                 x.cell),
                             Tail(selecteds))

\* the three-way choice after the selections are made
combine_at(h, selecteds) ==
    IF HasErr(selecteds) THEN Got(h, FirstErr(selecteds))
    ELSE IF Len(selecteds) = 1 THEN Got(h, selecteds[1])
    ELSE IF \A i \in 1..Len(selecteds) : Peek(h, selecteds[i]).t = "dict"
    THEN reduce_into_dict_at(Alloc(h, DictV(<<>>)), selecteds)
    ELSE reduce_into_list_at(Alloc(h, ListV(<<>>)), selecteds)

\* a variant of Returned: the filter changes the object it was given and
\* hands it back, as x.sort() and x.reverse() do
InPlace(h, cell, name, r) ==
    IF r.t \notin {"list", "dict"} THEN Got(h, r)
    ELSE IF cell.t = "ref" THEN Got([h EXCEPT ![cell.v] = r], cell)
    ELSE Alloc(h, r)

\* what a filter returns: an item of x or a scalar as it is, x itself from
\* values of a list (return x), and a new object from sorted, list, dict, a
\* slice or a comprehension
Returned(h, cell, name, r) ==
    IF r.t \notin {"list", "dict"} THEN Got(h, r)
    ELSE IF name = "values" /\ Peek(h, cell).t = "list" THEN Got(h, cell)
    ELSE Alloc(h, r)

\* one turn of the filter loop; a filter that compares or adds the items of
\* a list fails as their kinds make it fail
filter_at(h, cell, filter) ==
    IF IsErr(apply_filter(View(h, cell), filter))
    THEN Got(h, apply_filter(View(h, cell), filter))
    ELSE IF IsErr(apply_filter(Peek(h, cell), filter))
    THEN Got(h, apply_filter(Peek(h, cell), filter))
    ELSE Returned(h, cell, filter.name, apply_filter(Peek(h, cell), filter))

RECURSIVE apply_filters_at(_, _)
apply_filters_at(got, filters) ==
    IF IsErr(got.cell) \/ Len(filters) = 0 THEN got
    ELSE apply_filters_at(filter_at(got.heap, got.cell, Head(filters)),
                          Tail(filters))

\* select_data up to its filter loop
select_body_at(h, d, parsed, lookup_table) ==
    IF parsed.lookup # ""
    THEN IF lookup_table.t = "none"
         THEN Got(h, Err("ValueError", <<"lookup table required but not provided">>))
         ELSE Got(h, Subscript(h[lookup_table.v].v, parsed.lookup))
    ELSE combine_at(selecteds_at(Got(h, <<>>), d, parsed.selections).heap,
                    selecteds_at(Got(h, <<>>), d, parsed.selections).cell)

\* select_data(data, selector, lookup_table=lookup_table)
select_data_at(h, d, toks, lookup_table) ==
    IF ~parse_selector(toks).ok THEN Got(h, ParseException)
    ELSE apply_filters_at(select_body_at(h, d, parse_selector(toks), lookup_table),
                          parse_selector(toks).filters)

\* the data and the spec of the call: the objects they were when it began
DataRoot == Store(<<>>, data).cell
SpecRoot == Store(Store(<<>>, data).heap, spec).cell
Before == Store(Store(<<>>, data).heap, spec).heap

\* a call of apply_spec: its spec, the position of its loop, its result = {}
FrameAt(items, result) == [items |-> items, i |-> 1, result |-> result]

CurAt == Peek(heap, Top.items).v[Top.i]
InLoopAt ==
    status = "running" /\ Len(stack) > 0 /\ Top.i <= Len(Peek(heap, Top.items).v)

\* result[key] = select_data(...), or the except clause
StoreAt(got, key, ignore_key_errors) ==
    IF ~IsErr(got.cell)
    THEN /\ heap' = [got.heap EXCEPT
                        ![Top.result.v] = DictV(DictSet(@.v, key, got.cell))]
         /\ stack' = [stack EXCEPT ![Len(stack)].i = @ + 1]
         /\ UNCHANGED <<status, outcome>>
    ELSE IF Ignored(got.cell, ignore_key_errors)
    THEN /\ heap' = got.heap
         /\ stack' = [stack EXCEPT ![Len(stack)].i = @ + 1]
         /\ UNCHANGED <<status, outcome>>
    ELSE /\ heap' = got.heap
         /\ Raise(got.cell)

EvalLeafAt ==
    /\ InLoopAt
    /\ CurAt.v.t = "str"
    /\ StoreAt(select_data_at(heap, DataRoot, CurAt.v.v, Top.result),
               StoreKey(CurAt.k), EndsWithMark(CurAt.k))
    /\ UNCHANGED <<spec, data, log, selector, table, opened, other>>
    /\ UNCHANGED registryVars

DescendAt ==
    /\ InLoopAt
    /\ Peek(heap, CurAt.v).t = "dict"
    /\ heap' = Append(heap, DictV(<<>>))
    /\ stack' = Append(stack, FrameAt(CurAt.v, Ref(Len(heap) + 1)))
    /\ UNCHANGED <<spec, data, status, outcome, log, selector, table, opened,
                   other>>
    /\ UNCHANGED registryVars

ShapeErrorAt ==
    /\ InLoopAt
    /\ Peek(heap, CurAt.v).t \notin {"str", "dict"}
    /\ Raise(Err("ValueError", <<"unexpected type in given data">>))
    /\ UNCHANGED <<spec, data, log, selector, table, opened, other, heap>>
    /\ UNCHANGED registryVars

ReturnAt ==
    /\ status = "running"
    /\ Len(stack) > 0
    /\ Top.i > Len(Peek(heap, Top.items).v)
    /\ IF Len(stack) = 1
       THEN /\ status' = "returned"
            /\ outcome' = Top.result
            /\ stack' = <<>>
            /\ UNCHANGED heap
       ELSE /\ heap' = [heap EXCEPT
                           ![stack[Len(stack) - 1].result.v] =
                               DictV(DictSet(@.v,
                                   Peek(heap, stack[Len(stack) - 1].items)
                                       .v[stack[Len(stack) - 1].i].k,
                                   Top.result))]
            /\ stack' = [SubSeq(stack, 1, Len(stack) - 1)
                            EXCEPT ![Len(stack) - 1].i = @ + 1]
            /\ UNCHANGED <<status, outcome>>
    /\ UNCHANGED <<spec, data, log, selector, table, opened, other>>
    /\ UNCHANGED registryVars

\* the leaves of a spec of the memory specification
MaxLeaves == 2

MemoryData ==
    DictV(<<Entry(Name("n"), ListV(<<IntV(3), IntV(1), IntV(2)>>)),
            Entry(Name("p"), DictV(<<Entry(Name("y"), IntV(1)),
                                     Entry(Name("w"), IntV(2))>>)),
            Entry(Name("m"), ListV(<<DictV(<<Entry(Name("y"), IntV(1))>>),
                                     DictV(<<Entry(Name("y"), IntV(2))>>)>>))>>)

\* what the first leaf selects: a list, a dict, a field of the items of a
\* list, a list and a list of dicts combined, two dicts combined
Selections ==
    {<<"n">>, <<"p">>, <<"m", ".", "y">>,
     <<"(", "n", ",", "m", ")">>, <<"(", "p", ",", "p", ")">>}

\* and the filters that follow
Pipes ==
    {<<>>, <<"|", "values">>, <<"|", "sort">>, <<"|", "reverse">>,
     <<"|", "head", "(", "2", ")">>, <<"|", "tail", "(", "2", ")">>,
     <<"|", "first">>}

LeafNames == <<"a", "b", "c", "d">>

\* the specs of n leaves, named a, b, ... in this order: the first selects
\* from the data, each later one looks up the one before it
RECURSIVE LeavesOf(_)
LeavesOf(n) ==
    IF n = 1
    THEN {<<Entry(Name(LeafNames[1]), StrV(sel \o pipe))>> :
             sel \in Selections, pipe \in Pipes}
    ELSE {Append(items, Entry(Name(LeafNames[n]),
                              StrV(<<"=", LeafNames[n - 1]>> \o pipe))) :
             items \in LeavesOf(n - 1), pipe \in Pipes}

\* a nested spec, an optional leaf that is skipped, a value that is no selector
OtherSpecs ==
    {<<Entry(Name("a"), DictV(<<Entry(Name("a"), StrV(<<"n", "|", "sort">>))>>)),
       Entry(Name("b"), StrV(<<"=", "a">>))>>,
     <<Entry(<<"a", "?">>, StrV(<<"=", "b">>)),
       Entry(Name("b"), StrV(<<"n", "|", "reverse">>))>>,
     <<Entry(Name("a"), StrV(<<"n", "|", "values">>)), Entry(Name("b"), IntV(1))>>}

InitMemory ==
    /\ \/ \E n \in 1..MaxLeaves : \E items \in LeavesOf(n) : spec = DictV(items)
       \/ \E items \in OtherSpecs : spec = DictV(items)
    /\ data = MemoryData
    /\ heap = Append(Before, DictV(<<>>))
    /\ stack = <<FrameAt(SpecRoot, Ref(Len(heap)))>>
    /\ status = "running"
    /\ outcome = NoneV
    /\ log = <<>>
    /\ selector = <<>>
    /\ table = NoneV
    /\ functions = <<DefaultFunctions>>
    /\ copied = 0
    /\ call = NoCall
    /\ target_cls = NoneV
    /\ opened = <<>>
    /\ other = NoneV

NextMemory == EvalLeafAt \/ DescendAt \/ ShapeErrorAt \/ ReturnAt

SpecMemory == InitMemory /\ [][NextMemory]_vars

----------------------------------------------------------------------------
(* Reading a run of apply_spec against the spec it was given.  log holds one *)
(* entry per evaluated selector leaf, in the order of evaluation: the path   *)
(* and position of the leaf, its key as written, and what select_data gave.  *)

\* the items of the nested spec at path (the positions to descend through)
RECURSIVE ItemsAt(_, _)
ItemsAt(items, path) ==
    IF path = <<>> THEN items ELSE ItemsAt(items[Head(path)].v.v, Tail(path))

\* the sigils of a key as the specification describes them
IsOptional(key) == key # <<>> /\ key[Len(key)] = "?"
IsHidden(key) == key # <<>> /\ key[1] = "~"
WithoutOptional(key) ==
    IF IsOptional(key) THEN SubSeq(key, 1, Len(key) - 1) ELSE key
WithoutSigils(key) ==
    IF IsHidden(key) THEN Tail(WithoutOptional(key)) ELSE WithoutOptional(key)

\* the spec of the leaf of log entry j: its siblings and its selector
SiblingsOf(j) == ItemsAt(spec.v, log[j].path)
SelectorOf(j) == SiblingsOf(j)[log[j].i].v.v

\* the selector =name, and nothing more
IsBareLookup(toks) == Len(toks) = 2 /\ toks[1] = "="

\* the log has the entry of the leaf at position i of the object at path
IsLogged(path, i) == \E k \in 1..Len(log) : log[k].path = path /\ log[k].i = i
Logged(path, i) ==
    log[CHOOSE k \in 1..Len(log) : log[k].path = path /\ log[k].i = i]

\* an optional leaf whose evaluation raised the missing-key error
IsSkipped(path, i, item) ==
    /\ item.v.t = "str"
    /\ IsOptional(item.k)
    /\ IsLogged(path, i)
    /\ IsKeyError(Logged(path, i).value)

\* the earlier log entries of the siblings of entry j that bound name: plain
\* or optional leaves called name whose evaluation succeeded
Binders(j, name) ==
    {k \in 1..(j - 1) : /\ log[k].path = log[j].path
                        /\ WithoutOptional(log[k].key) = <<name>>
                        /\ ~IsErr(log[k].value)}

Latest(S) == CHOOSE k \in S : \A m \in S : m <= k

\* the siblings at positions lo+1 .. hi-1 of entry j called name, whatever
\* their sigils and kind, other than optional leaves that were skipped
NamedBetween(j, name, lo, hi) ==
    {i \in (lo + 1)..(hi - 1) :
        /\ WithoutSigils(SiblingsOf(j)[i].k) = <<name>>
        /\ ~IsSkipped(log[j].path, i, SiblingsOf(j)[i])}

\* the leaves of an object are evaluated in the order of the spec's keys
InKeyOrder(j) ==
    /\ \A k \in 1..(j - 1) : log[k].path = log[j].path => log[k].i < log[j].i
    /\ \A i \in 1..(log[j].i - 1) :
           SiblingsOf(j)[i].v.t = "str" =>
               \E k \in 1..(j - 1) : log[k].path = log[j].path /\ log[k].i = i

\* =name sees the value of the latest earlier sibling leaf that bound name
SeesEarlierSibling(j, name) ==
    (/\ Binders(j, name) # {}
     /\ NamedBetween(j, name, log[Latest(Binders(j, name))].i, log[j].i) = {})
        => log[j].value = log[Latest(Binders(j, name))].value

\* =name fails when no earlier sibling is called name
FailsWhenUnbound(j, name) ==
    NamedBetween(j, name, 0, log[j].i) = {}
        => /\ IsKeyError(log[j].value)
           /\ ~IsOptional(log[j].key)
                  => status = "raised" /\ outcome = log[j].value /\ j = Len(log)

\* C1: apply_spec evaluates the selector leaves of an object in spec key
\* order; a leaf =X gets the value bound by the latest earlier sibling leaf X
\* (or X?), and when no earlier sibling is called X the evaluation raises the
\* missing-key error, which makes apply_spec fail unless the key is optional.
C1_LookupSeesEarlierSiblings ==
    \A j \in 1..Len(log) :
        /\ InKeyOrder(j)
        /\ IsBareLookup(SelectorOf(j)) =>
               /\ SeesEarlierSibling(j, SelectorOf(j)[2])
               /\ FailsWhenUnbound(j, SelectorOf(j)[2])

\* a lookup resolved to an earlier sibling, and apply_spec returned
C1_Witness ==
    /\ status = "returned"
    /\ \E j \in 1..Len(log) :
           /\ IsBareLookup(SelectorOf(j))
           /\ Binders(j, SelectorOf(j)[2]) # {}
           /\ log[j].value = log[Latest(Binders(j, SelectorOf(j)[2]))].value

\* C2: a leaf ~k is evaluated like any other, a later sibling =k gets its
\* value, and the output of apply_spec has neither the key k nor the key ~k.
C2_HiddenLeaf ==
    \A j \in 1..Len(log) :
        (IsHidden(log[j].key) /\ ~IsErr(log[j].value)) =>
            /\ \A m \in (j + 1)..Len(log) :
                   (/\ log[m].path = log[j].path
                    /\ SelectorOf(m) = <<"=">> \o WithoutSigils(log[j].key)
                    /\ NamedBetween(m, SelectorOf(m)[2], log[j].i, log[m].i) = {})
                       => log[m].value = log[j].value
            /\ (status = "returned" /\ log[j].path = <<>>) =>
                   /\ ~HasKey(outcome.v, log[j].key)
                   /\ NamedBetween(j, WithoutSigils(log[j].key), 0,
                                   Len(spec.v) + 1) = {log[j].i}
                          => ~HasKey(outcome.v, WithoutSigils(log[j].key))

\* the three ways a selector lacks its key: a key absent from the data, a
\* field absent from an item of a list of the data, a lookup of an unbound name
AbsentDataKey(toks) ==
    Len(toks) = 1 /\ IsIdent(toks[1]) /\ ~HasKey(data.v, <<toks[1]>>)
AbsentItemField(toks) ==
    /\ Len(toks) = 3 /\ IsIdent(toks[1]) /\ toks[2] = "." /\ IsIdent(toks[3])
    /\ HasKey(data.v, <<toks[1]>>)
    /\ DictGet(data.v, <<toks[1]>>).t = "list"
    /\ \A i \in 1..Len(DictGet(data.v, <<toks[1]>>).v) :
           DictGet(data.v, <<toks[1]>>).v[i].t = "dict"
    /\ \E i \in 1..Len(DictGet(data.v, <<toks[1]>>).v) :
           ~HasKey(DictGet(data.v, <<toks[1]>>).v[i].v, <<toks[3]>>)
UnboundLookup(toks, bound) == IsBareLookup(toks) /\ ~HasKey(bound, <<toks[2]>>)
LacksKey(toks, bound) ==
    AbsentDataKey(toks) \/ AbsentItemField(toks) \/ UnboundLookup(toks, bound)

\* the step of an optional leaf: what was evaluated, and the object after it
Evaluated == log'[Len(log')].value
ResultAfter == stack'[Len(stack')].result

\* C3: the evaluation of an optional leaf k? whose selector lacks its key
\* (absent data key, absent field of a list item, unbound lookup) raises the
\* missing-key error, and then the leaf is skipped: the object built so far
\* (output and lookup table) is unchanged and apply_spec goes on with the next
\* entry; when the evaluation succeeds the value is stored under k.
C3_OptionalLeafSkipped ==
    [][(InLoop /\ Cur.v.t = "str" /\ IsOptional(Cur.k)) =>
          /\ Len(log') = Len(log) + 1
          /\ LacksKey(Cur.v.v, Top.result) => IsKeyError(Evaluated)
          /\ IsKeyError(Evaluated) =>
                 /\ status' = "running"
                 /\ stack' = [stack EXCEPT ![Len(stack)].i = @ + 1]
          /\ ~IsErr(Evaluated) =>
                 /\ status' = "running"
                 /\ Len(stack') = Len(stack)
                 /\ stack'[Len(stack)].i = Top.i + 1
                 /\ HasKey(ResultAfter, WithoutOptional(Cur.k))
                 /\ DictGet(ResultAfter, WithoutOptional(Cur.k)) = Evaluated
                 /\ ~HasKey(ResultAfter, Cur.k)
                 /\ \A k \in {Top.result[i].k : i \in 1..Len(Top.result)} :
                        k # WithoutOptional(Cur.k) =>
                            /\ HasKey(ResultAfter, k)
                            /\ DictGet(ResultAfter, k) = DictGet(Top.result, k)]_vars

\* an optional leaf whose list item lacks the field was skipped, a later leaf
\* was evaluated, and apply_spec returned an output without the leaf's key
C3_Witness ==
    /\ status = "returned"
    /\ \E j \in 1..Len(log) :
           /\ log[j].path = <<>>
           /\ IsOptional(log[j].key)
           /\ IsKeyError(log[j].value)
           /\ AbsentItemField(SelectorOf(j))
           /\ ~HasKey(outcome.v, WithoutOptional(log[j].key))
           /\ \E m \in (j + 1)..Len(log) : log[m].path = <<>>

\* C4: an optional key recovers from the missing-key error only: any other
\* error raised by the evaluation of its selector (a field of a scalar, a
\* filter outside its domain, a bad filter argument, a selector that does not
\* parse) makes apply_spec fail with that error.
C4_OptionalRecoversOnlyMissingKey ==
    \A j \in 1..Len(log) :
        (/\ IsOptional(log[j].key)
         /\ IsErr(log[j].value)
         /\ ~IsKeyError(log[j].value))
            => /\ status = "raised"
               /\ outcome = log[j].value
               /\ j = Len(log)

\* an optional leaf took a field of a scalar, and apply_spec failed with it
C4_Witness ==
    /\ status = "raised"
    /\ Len(log) > 0
    /\ IsOptional(log[Len(log)].key)
    /\ SelectorOf(Len(log)) = <<"x", ".", "y">>
    /\ outcome = Err("ValueError", <<"unexpected type in given data">>)

\* the keys the specification gives the output of the object at path: the
\* spec's keys in order, sigils stripped, without the hidden keys and the
\* optional leaves that were skipped
RECURSIVE KeysFrom(_, _, _)
KeysFrom(items, path, i) ==
    IF i > Len(items) THEN <<>>
    ELSE IF IsHidden(items[i].k) \/ IsSkipped(path, i, items[i])
    THEN KeysFrom(items, path, i + 1)
    ELSE <<WithoutSigils(items[i].k)>> \o KeysFrom(items, path, i + 1)

\* out has those keys in that order, and so has every nested object of it
RECURSIVE HasSpecOrder(_, _, _)
HasSpecOrder(items, path, out) ==
    /\ DictKeys(out) = KeysFrom(items, path, 1)
    /\ \A i \in 1..Len(items) :
           (/\ items[i].v.t = "dict"
            /\ HasKey(out, WithoutSigils(items[i].k))
            /\ DictGet(out, WithoutSigils(items[i].k)).t = "dict")
               => HasSpecOrder(items[i].v.v, Append(path, i),
                               DictGet(out, WithoutSigils(items[i].k)).v)

\* C5: the keys of the output of apply_spec, at every nesting level, are the
\* spec's keys in spec order with their sigils stripped, the hidden keys and
\* the skipped optional keys left out.
C5_OutputKeyOrder ==
    status = "returned" => HasSpecOrder(spec.v, <<>>, outcome.v)

\* no key of d, nor of a nested object of d, begins with ~ or ends with ?
RECURSIVE NoSigils(_)
NoSigils(d) ==
    \A i \in 1..Len(d) :
        /\ ~IsHidden(d[i].k)
        /\ ~IsOptional(d[i].k)
        /\ d[i].v.t = "dict" => NoSigils(d[i].v.v)

\* C6: no key of the output of apply_spec, nested objects included, begins
\* with ~ or ends with ?.
C6_NoSigilInOutput == status = "returned" => NoSigils(outcome.v)

\* C7: every nested object of a spec is evaluated against a lookup table of
\* its own, empty at the start: a leaf =X resolves only to an earlier entry
\* of the same object, and raises the missing-key error when there is none,
\* whatever the enclosing object, a sibling object or a nested object bound.
C7_FreshLookupTablePerObject ==
    \A j \in 1..Len(log) :
        IsBareLookup(SelectorOf(j)) =>
            /\ NamedBetween(j, SelectorOf(j)[2], 0, log[j].i) = {}
                   => IsKeyError(log[j].value)
            /\ (~IsErr(log[j].value) /\ Binders(j, SelectorOf(j)[2]) # {}
                /\ NamedBetween(j, SelectorOf(j)[2],
                                log[Latest(Binders(j, SelectorOf(j)[2]))].i,
                                log[j].i) = {})
                   => log[j].value =
                          log[Latest(Binders(j, SelectorOf(j)[2]))].value

\* a leaf =X of a nested object failed to resolve the X of its parent
C7_Witness ==
    \E j \in 1..Len(log) :
        /\ log[j].path # <<>>
        /\ IsBareLookup(SelectorOf(j))
        /\ IsKeyError(log[j].value)
        /\ \E k \in 1..(j - 1) :
               /\ log[k].path = SubSeq(log[j].path, 1, Len(log[j].path) - 1)
               /\ log[k].key = <<SelectorOf(j)[2]>>
               /\ ~IsErr(log[k].value)

----------------------------------------------------------------------------
(* Reading a call of select_data against the selector it was given *)

Selected == status # "selecting"

\* a floating-point number, as the fraction it is the quotient of
FloatV(num, den) == [t |-> "float", v |-> <<num, den>>]

\* the value the specification gives a op b for two numbers
Arithmetic(op, a, b) ==
    CASE op = "+" -> IntV(a + b)
      [] op = "-" -> IntV(a - b)
      [] op = "*" -> IntV(a * b)
      [] op = "/" -> FloatV(a, b)

\* the selector =a op =b with both names bound to numbers in the table
IsLookupArithmetic(toks) ==
    /\ Len(toks) = 5
    /\ toks[1] = "=" /\ toks[4] = "="
    /\ toks[3] \in {"+", "-", "*", "/"}
    /\ table.t = "dict"
    /\ \A name \in {toks[2], toks[5]} :
           HasKey(table.v, <<name>>) /\ DictGet(table.v, <<name>>).t = "int"

\* C8: a selector =a op =b, op one of + - * /, whose names are bound to
\* numbers, evaluates to the arithmetic result of the two bound values, and
\* the result of / is a floating-point quotient (80 / 16 is 5.0).
C8_LookupArithmetic ==
    (Selected /\ IsLookupArithmetic(selector)) =>
        outcome = Arithmetic(selector[3], DictGet(table.v, <<selector[2]>>).v,
                             DictGet(table.v, <<selector[5]>>).v)

\* data whose numbers are [1, 2, 4]
HasNumbers ==
    /\ HasKey(data.v, <<"numbers">>)
    /\ DictGet(data.v, <<"numbers">>) = ListV(<<IntV(1), IntV(2), IntV(4)>>)

\* C9: * and / bind tighter than + and -, and the filters of an operand are
\* applied before the arithmetic: on numbers = [1, 2, 4],
\* numbers|first + numbers|last * numbers|last is 17 and
\* (numbers|first + numbers|last) / numbers|last is 1.25.
C9_ArithmeticPrecedence ==
    (Selected /\ HasNumbers) =>
        /\ selector = <<"numbers", "|", "first", "+", "numbers", "|", "last",
                        "*", "numbers", "|", "last">>
               => outcome = IntV(17)
        /\ selector = <<"(", "numbers", "|", "first", "+", "numbers", "|",
                        "last", ")", "/", "numbers", "|", "last">>
               => outcome = FloatV(5, 4)

\* a selector that is a dotted path f1.f2...fn, and its fields
IsPath(toks) ==
    /\ Len(toks) % 2 = 1
    /\ \A i \in 1..Len(toks) : IF i % 2 = 1 THEN IsIdent(toks[i]) ELSE toks[i] = "."
PathFields(toks) == [i \in 1..((Len(toks) + 1) \div 2) |-> toks[2 * i - 1]]

MissingKey == Err("KeyError", <<>>)
UnexpectedType == Err("ValueError", <<"unexpected type in given data">>)

\* the entry of a map for a field
HasField(m, f) == \E i \in 1..Len(m.v) : m.v[i].k = <<f>>
FieldOf(m, f) == m.v[CHOOSE i \in 1..Len(m.v) : m.v[i].k = <<f>>].v

\* the walk the specification describes, from cur along fields
RECURSIVE Walk(_, _)
Walk(cur, fields) ==
    IF fields = <<>> THEN cur
    ELSE IF cur.t = "dict"
    THEN IF HasField(cur, Head(fields))
         THEN Walk(FieldOf(cur, Head(fields)), Tail(fields))
         ELSE MissingKey
    ELSE IF cur.t = "list"
    THEN IF \A i \in 1..Len(cur.v) : HasField(cur.v[i], Head(fields))
         THEN Walk(ListV([i \in 1..Len(cur.v) |-> FieldOf(cur.v[i], Head(fields))]),
                   Tail(fields))
         ELSE MissingKey
    ELSE UnexpectedType

\* the walk meets no list with an item that is not a map
RECURSIVE OverMaps(_, _)
OverMaps(cur, fields) ==
    \/ fields = <<>>
    \/ /\ cur.t = "dict"
       /\ HasField(cur, Head(fields))
              => OverMaps(FieldOf(cur, Head(fields)), Tail(fields))
    \/ /\ cur.t = "list"
       /\ \A i \in 1..Len(cur.v) : cur.v[i].t = "dict"
       /\ (\A i \in 1..Len(cur.v) : HasField(cur.v[i], Head(fields)))
              => OverMaps(ListV([i \in 1..Len(cur.v) |->
                                    FieldOf(cur.v[i], Head(fields))]),
                          Tail(fields))
    \/ cur.t \notin {"dict", "list"}

\* a value, or the kind of the error
Kind(x) ==
    IF ~IsErr(x) THEN "value"
    ELSE IF IsKeyError(x) THEN "missing key"
    ELSE IF x = UnexpectedType THEN "unexpected type"
    ELSE "other"

\* C10: for a dotted path f1.f2...fn, select_data starts at data and takes
\* the fields in order: of a map its entry for the field (missing-key error
\* when absent), of a list the list, in the same order, of the field of each
\* item, and of any other kind the error 'unexpected type in given data'; so
\* select_data(D, "x") is D["x"] for every top-level key x of D.
C10_DottedPath ==
    (Selected /\ IsPath(selector) /\ OverMaps(data, PathFields(selector))) =>
        /\ Kind(outcome) = Kind(Walk(data, PathFields(selector)))
        /\ Kind(outcome) = "value" => outcome = Walk(data, PathFields(selector))
        /\ (Len(selector) = 1 /\ HasKey(data.v, <<selector[1]>>))
               => outcome = DictGet(data.v, <<selector[1]>>)

\* a path through a list of maps gave the list of their fields, in order
C10_Witness ==
    /\ Selected
    /\ selector = <<"l", ".", "y">>
    /\ data = SelectData1
    /\ outcome = ListV(<<IntV(2), IntV(1)>>)

\* a selector f1,f2,...,fn of n > 1 top-level fields, bare or as (...)|sum
IsCombine(toks) ==
    /\ Len(toks) >= 3
    /\ Len(toks) % 2 = 1
    /\ \A i \in 1..Len(toks) : IF i % 2 = 1 THEN IsIdent(toks[i]) ELSE toks[i] = ","
IsSummedCombine(toks) ==
    /\ Len(toks) >= 7
    /\ toks[1] = "("
    /\ SubSeq(toks, Len(toks) - 2, Len(toks)) = <<")", "|", "sum">>
    /\ IsCombine(SubSeq(toks, 2, Len(toks) - 3))

\* the values of the selections f1 .. fn, all present in the data
CombineFields(toks) == [i \in 1..((Len(toks) + 1) \div 2) |-> toks[2 * i - 1]]
AllPresent(fields) == \A i \in 1..Len(fields) : HasField(data, fields[i])
ValuesOf(fields) == [i \in 1..Len(fields) |-> FieldOf(data, fields[i])]

\* s without the later occurrences of its elements
RECURSIVE FirstAppearances(_)
FirstAppearances(s) ==
    IF s = <<>> THEN <<>>
    ELSE <<Head(s)>> \o
         FirstAppearances(SelectSeq(Tail(s), LAMBDA k : k # Head(s)))

\* the keys of the maps, one map after the other
RECURSIVE KeysOfAll(_)
KeysOfAll(maps) ==
    IF maps = <<>> THEN <<>>
    ELSE [i \in 1..Len(Head(maps).v) |-> Head(maps).v[i].k] \o KeysOfAll(Tail(maps))

\* the values the maps give key k, in the order of the maps
RECURSIVE ValuesFor(_, _)
ValuesFor(maps, k) ==
    IF maps = <<>> THEN <<>>
    ELSE (IF \E i \in 1..Len(Head(maps).v) : Head(maps).v[i].k = k
          THEN <<Head(maps).v[CHOOSE i \in 1..Len(Head(maps).v) :
                                  Head(maps).v[i].k = k].v>>
          ELSE <<>>) \o ValuesFor(Tail(maps), k)

\* the union of the maps: each key, in order of first appearance, with the
\* list of its values
UnionOfMaps(maps) ==
    DictV([i \in 1..Len(FirstAppearances(KeysOfAll(maps))) |->
              Entry(FirstAppearances(KeysOfAll(maps))[i],
                    ListV(ValuesFor(maps, FirstAppearances(KeysOfAll(maps))[i])))])

\* what the specification gives the combine of the values
Combined(vals) ==
    IF Len(vals) = 1 THEN vals[1]
    ELSE IF \A i \in 1..Len(vals) : vals[i].t = "dict" THEN UnionOfMaps(vals)
    ELSE ListV(vals)

\* the sum of a list of numbers, and a map of such lists with each one summed
RECURSIVE Total(_)
Total(s) == IF s = <<>> THEN 0 ELSE Head(s).v + Total(Tail(s))
AllNumbers(m) ==
    \A i \in 1..Len(m.v) : \A j \in 1..Len(m.v[i].v.v) : m.v[i].v.v[j].t = "int"
EachSummed(m) ==
    DictV([i \in 1..Len(m.v) |-> Entry(m.v[i].k, IntV(Total(m.v[i].v.v)))])

\* C11: a combine of n > 1 selections gives, when all n values are maps, the
\* map of the union of their keys in order of first appearance, each key with
\* the list of the values of the maps that have it, in the order of the
\* selections, and otherwise the list of the n values in selection order; so
\* (x,n)|sum of x = {y:10, n:12} and n = {y:1, n:3} is {y:11, n:15}.
C11_Combine ==
    /\ (Selected /\ IsCombine(selector) /\ AllPresent(CombineFields(selector)))
           => outcome = Combined(ValuesOf(CombineFields(selector)))
    /\ (/\ Selected
        /\ IsSummedCombine(selector)
        /\ AllPresent(CombineFields(SubSeq(selector, 2, Len(selector) - 3)))
        /\ Combined(ValuesOf(CombineFields(
               SubSeq(selector, 2, Len(selector) - 3)))).t = "dict"
        /\ AllNumbers(Combined(ValuesOf(CombineFields(
               SubSeq(selector, 2, Len(selector) - 3))))))
           => outcome = EachSummed(Combined(ValuesOf(CombineFields(
                            SubSeq(selector, 2, Len(selector) - 3)))))

\* three maps were combined: a key of the first and third only has two values
C11_Witness ==
    /\ Selected
    /\ selector = <<"x", ",", "n", ",", "p">>
    /\ data = SelectData3
    /\ outcome = DictV(<<Entry(<<"y">>, ListV(<<IntV(10), IntV(1), IntV(7)>>)),
                         Entry(<<"n">>, ListV(<<IntV(12), IntV(3)>>)),
                         Entry(<<"l">>, ListV(<<IntV(5)>>))>>)

----------------------------------------------------------------------------
(* Reading calls of Filters.apply.  log holds the calls of register made on  *)
(* the copy, call the filters applied in a row, data the first value.       *)

Applied == call # NoCall
AppliedOnce == Applied /\ Len(call.filters) = 1

\* the calls of register that name a filter, and the function of the last
Registrations(name) == {i \in 1..Len(log) : log[i].name = name}
LastRegistered(name) ==
    log[CHOOSE i \in Registrations(name) :
            \A j \in Registrations(name) : j <= i].function

\* what the lambdas of the callers give a str
Invoked(function, x) ==
    IF function = Lambda("upper")
    THEN StrV([i \in 1..Len(x.v) |-> UpperChar(x.v[i])])
    ELSE StrV(<<"test">> \o x.v)

\* C12: after c = default_filters.copy() and any calls of c.register(name, f),
\* applying name through c invokes the f registered last, a default filter
\* that was not registered again gives through c what it gives through the
\* default registry, and the default registry has exactly the filters it had:
\* a name registered on c only still fails through it.
C12_CopyThenRegister ==
    /\ functions[default_filters] = DefaultFunctions
    /\ (AppliedOnce /\ copied # 0 /\ call.self = copied) =>
           /\ (Registrations(call.filters[1].name) # {} /\ data.t = "str")
                  => outcome = Invoked(LastRegistered(call.filters[1].name), data)
           /\ (/\ Registrations(call.filters[1].name) = {}
               /\ \E i \in 1..Len(DefaultNames) :
                      DefaultNames[i] = call.filters[1].name)
                  => outcome = FiltersApply(DefaultFunctions, data,
                                            call.filters[1].name,
                                            call.filters[1].arguments)
    /\ (/\ AppliedOnce
        /\ call.self = default_filters
        /\ Registrations(call.filters[1].name) # {}
        /\ \A i \in 1..Len(DefaultNames) : DefaultNames[i] # call.filters[1].name)
           => IsErr(outcome)

\* test was registered on the copy twice, and the copy applied the second
C12_Witness ==
    /\ AppliedOnce
    /\ copied # 0
    /\ call.self = copied
    /\ log = <<[name |-> "test", function |-> Lambda("upper")],
               [name |-> "test", function |-> Lambda("test")]>>
    /\ call.filters[1].name = "test"
    /\ outcome = StrV(<<"test", "a", "B">>)

\* C13: applying a filter whose name is not in the registry fails with the
\* filter-unknown error, which is not the missing-key error (and so is not
\* recovered by an optional key).
C13_UnknownFilter ==
    (AppliedOnce /\ ~HasKey(functions[call.self], call.filters[1].name)) =>
        IsErr(outcome) /\ ~IsKeyError(outcome)

\* a selector f|name(a1,...,an) of a field of the data, and its arguments
IsFilterCall(toks) ==
    /\ Len(toks) >= 6
    /\ Len(toks) % 2 = 0
    /\ IsIdent(toks[1]) /\ toks[2] = "|" /\ IsIdent(toks[3]) /\ toks[4] = "("
    /\ toks[Len(toks)] = ")"
    /\ \A i \in 5..(Len(toks) - 1) : IF i % 2 = 1 THEN IsArg(toks[i]) ELSE toks[i] = ","
    /\ HasField(data, toks[1])
WrittenArguments(toks) == [i \in 1..((Len(toks) - 4) \div 2) |-> toks[2 * i + 3]]

\* the positional parameters the filters declare after the value, all ints
DeclaredParameters(name) == IF name \in {"head", "tail"} THEN 1 ELSE 0

\* C14: a selector that writes more positional arguments than the filter
\* declares (xs|keys(1), xs|head(1,2)), or an argument that cannot be coerced
\* to the declared type (xs|head(zz)), fails; no such call returns a value.
C14_FilterArguments ==
    (/\ Selected
     /\ IsFilterCall(selector)
     /\ selector[3] \in {"keys", "head", "tail"}
     /\ \/ Len(WrittenArguments(selector)) > DeclaredParameters(selector[3])
        \/ \E i \in 1..DeclaredParameters(selector[3]) :
               WrittenArguments(selector)[i] \notin {"1", "2", "3"})
        => IsErr(outcome)

----------------------------------------------------------------------------
(* validate_spec, read from the outcome of one validation                    *)

Validated == status \in {"raised", "returned"} /\ target_cls # NoneV

KeySet(items) == {items[i].k : i \in 1..Len(items)}
StrippedKeys == {WithoutSigils(k) : k \in KeySet(spec.v)}
TargetFields == KeySet(target_cls.annotations)
IsKeysError(x) ==
    IsErr(x) /\ x.v[1] = "ValueError" /\ x.v[2] = <<"missing and/or superfluous key(s)">>
Named(x) == {x.v[3][i] : i \in 1..Len(x.v[3])}
OnlyLeaves(items) == \A i \in 1..Len(items) : items[i].v.t = "str"

\* C15: the key check passes iff the spec's keys, `~` and `?` stripped, are
\* the fields the target declares; otherwise validation fails with one error
\* naming the keys of the symmetric difference.
C15_KeysAfterStripping ==
    Validated =>
        /\ StrippedKeys # TargetFields =>
              /\ IsKeysError(outcome)
              /\ Named(outcome) = (StrippedKeys \ TargetFields) \cup
                                  (TargetFields \ StrippedKeys)
        /\ (StrippedKeys = TargetFields /\ OnlyLeaves(spec.v)) => ~IsKeysError(outcome)

\* the kinds of target fields
IsScalarKind(hint) == hint.kind = "scalar" \/ hint = JSONNumber
IsMapKind(hint) == hint.kind = "dict"

RECURSIVE ConformsTo(_, _)

\* a spec field against the target field: a leaf for a scalar, a map for a
\* map, whose leaves need a scalar V and whose maps conform to V
RightKind(sub_spec, hint) ==
    IF IsScalarKind(hint) THEN sub_spec.t = "str"
    ELSE IF IsMapKind(hint)
    THEN /\ sub_spec.t = "dict"
         /\ \A i \in 1..Len(sub_spec.v) :
                IF sub_spec.v[i].v.t = "str" THEN IsScalarKind(hint.args[2])
                ELSE ConformsTo(sub_spec.v[i].v, hint.args[2])
    ELSE FALSE

ConformsTo(value, cls) ==
    /\ value.t = "dict"
    /\ cls.kind = "class"
    /\ KeySet(value.v) = KeySet(cls.annotations)
    /\ \A i \in 1..Len(value.v) :
           RightKind(value.v[i].v, DictGet(cls.annotations, value.v[i].k))

\* C16: a spec that validates has, for every field, the kind the target
\* field asks for: a selector leaf for a scalar field, a map for a field
\* Map<string, V>, in which a leaf needs a scalar V and a map is validated
\* against V; every other combination fails.
C16_KindsEnforced ==
    (Validated /\ status = "returned") => ConformsTo(spec, target_cls)

----------------------------------------------------------------------------
(* the strings of the selector grammar, told by their shape *)

Sub(toks, from, to) == SubSeq(toks, from, to)
Alternates(toks, IsOdd(_), evens) ==
    /\ Len(toks) % 2 = 1
    /\ \A i \in 1..Len(toks) : IF i % 2 = 1 THEN IsOdd(toks[i]) ELSE toks[i] \in evens

IsLookupString(toks) == Len(toks) = 2 /\ toks[1] = "=" /\ IsIdent(toks[2])
IsSelectionString(toks) == Alternates(toks, IsIdent, {"."})
IsCombineString(toks) == Alternates(toks, IsIdent, {".", ","})
IsArgumentsString(toks) == toks = <<>> \/ Alternates(toks, IsArg, {","})
IsFilteredString(toks) ==
    \/ IsLookupString(toks)
    \/ IsSelectionString(toks)
    \/ /\ Len(toks) >= 3
       /\ toks[1] = "(" /\ toks[Len(toks)] = ")"
       /\ IsCombineString(Sub(toks, 2, Len(toks) - 1))
IsFilterString(toks) ==
    /\ Len(toks) >= 2
    /\ toks[1] = "|" /\ IsIdent(toks[2])
    /\ \/ Len(toks) = 2
       \/ /\ Len(toks) >= 4
          /\ toks[3] = "(" /\ toks[Len(toks)] = ")"
          /\ IsArgumentsString(Sub(toks, 4, Len(toks) - 1))

RECURSIVE IsFiltersString(_)
IsFiltersString(toks) ==
    \E j \in 2..Len(toks) :
        /\ IsFilterString(Sub(toks, 1, j))
        /\ j = Len(toks) \/ IsFiltersString(Sub(toks, j + 1, Len(toks)))

IsSelectorString(toks) ==
    \/ IsLookupString(toks)
    \/ IsCombineString(toks)
    \/ \E i \in 1..(Len(toks) - 1) :
           IsFilteredString(Sub(toks, 1, i)) /\ IsFiltersString(Sub(toks, i + 1, Len(toks)))

\* a complete selector followed by something more
HasLeftOver(toks) ==
    /\ ~IsSelectorString(toks)
    /\ \E i \in 1..(Len(toks) - 1) : IsSelectorString(Sub(toks, 1, i))

\* C17: parse_selector accepts a string only if the grammar consumes all of
\* it: a string is a parse error exactly when it is no selector of the
\* grammar as a whole, so text left over after a complete selector (a.b),
\* a,b|sum, a|f(1) !) is a parse error and select_data returns no value.
C17_WholeInputConsumed ==
    Selected => (outcome = ParseException <=> ~IsSelectorString(selector))

C17_Witness ==
    /\ Selected
    /\ HasLeftOver(selector)
    /\ selector = <<"x", ",", "n", "|", "sum">>
    /\ outcome = ParseException

----------------------------------------------------------------------------
(* filters in a row, read from the value given and the value returned *)

\* the filters applied so far are these names, none with arguments
Piped(names) ==
    /\ Applied
    /\ call.self = default_filters
    /\ call.filters = [i \in 1..Len(names) |-> Filter(names[i], <<>>)]

IsNumberList(x) == x.t = "list" /\ \A i \in 1..Len(x.v) : x.v[i].t = "int"
IsNumberMap(x) == x.t = "dict" /\ \A i \in 1..Len(x.v) : x.v[i].v.t = "int"
PrefixSum(s, i) == IntV(Total(SubSeq(s, 1, i)))
ValuesIn(d) == [i \in 1..Len(d) |-> d[i].v]

\* cumul of a list: as many items, each the sum of the items up to it
PrefixSumsOfList ==
    (Piped(<<"cumul">>) /\ IsNumberList(data)) =>
        /\ outcome.t = "list"
        /\ Len(outcome.v) = Len(data.v)
        /\ \A i \in 1..Len(data.v) : outcome.v[i] = PrefixSum(data.v, i)

\* cumul of a map: the same keys in the same order, the values summed up
PrefixSumsOfMap ==
    (Piped(<<"cumul">>) /\ IsNumberMap(data)) =>
        /\ outcome.t = "dict"
        /\ DictKeys(outcome.v) = DictKeys(data.v)
        /\ \A i \in 1..Len(data.v) : outcome.v[i].v = PrefixSum(ValuesIn(data.v), i)

Range(n) == ListV([i \in 1..n |-> IntV(i - 1)])
IsListOrMap(x) == x.t \in {"list", "dict"}

\* C19: keys of a map is the list of its keys in insertion order, not
\* sorted; keys of a list of length n is [0, 1, ..., n-1]; so x|keys|keys is
\* [0, 1, ..., n-1] for every list or map x of size n.
C19_Keys ==
    /\ (Piped(<<"keys">>) /\ data.t = "dict") =>
           outcome = ListV([i \in 1..Len(data.v) |-> StrV(data.v[i].k)])
    /\ (Piped(<<"keys">>) /\ data.t = "list") => outcome = Range(Len(data.v))
    /\ (Piped(<<"keys", "keys">>) /\ IsListOrMap(data)) =>
           outcome = Range(Len(data.v))

C19_Witness ==
    /\ Piped(<<"keys", "keys">>)
    /\ data.t = "dict"
    /\ DictKeys(data.v) = <<Name("b"), Name("a")>>
    /\ outcome = ListV(<<IntV(0), IntV(1)>>)

\* lists of scalars, and those whose elements can be compared with each other
IsScalarList(x) == x.t = "list" /\ \A i \in 1..Len(x.v) : x.v[i].t \in {"int", "str"}
IsNumbers(x) == x.t = "list" /\ \A i \in 1..Len(x.v) : x.v[i].t = "int"
IsStrings(x) == x.t = "list" /\ \A i \in 1..Len(x.v) : x.v[i].t = "str"

Ascending(s) == \A i \in 1..Len(s) : \A j \in (i + 1)..Len(s) : ~Less(s[j], s[i])
Count(s, e) == Cardinality({i \in 1..Len(s) : s[i] = e})
IsPermutation(s, t) ==
    /\ Len(s) = Len(t)
    /\ \A i \in 1..Len(t) : Count(s, t[i]) = Count(t, t[i])
KeysAsStrs(d) == [i \in 1..Len(d) |-> StrV(d[i].k)]

\* sort of a list: ascending, and the same elements as many times each
SortedList ==
    /\ outcome.t = "list"
    /\ Ascending(outcome.v)
    /\ IsPermutation(outcome.v, data.v)

\* sort of a map: the same entries, the keys ascending; and m|sort|keys is
\* m|keys|sort, the keys of m in ascending order
SortedMap ==
    /\ (Piped(<<"sort">>) /\ data.t = "dict") =>
           /\ outcome.t = "dict"
           /\ IsPermutation(outcome.v, data.v)
           /\ Ascending(KeysAsStrs(outcome.v))
    /\ ((Piped(<<"sort", "keys">>) \/ Piped(<<"keys", "sort">>)) /\ data.t = "dict") =>
           /\ outcome.t = "list"
           /\ Ascending(outcome.v)
           /\ IsPermutation(outcome.v, KeysAsStrs(data.v))

----------------------------------------------------------------------------
(* head and tail, read from the value given and the value returned *)

\* one filter applied, with these arguments as written
CalledWith(name, arguments) ==
    /\ Applied
    /\ call.self = default_filters
    /\ call.filters = <<Filter(name, arguments)>>

\* the n a call of head or tail is made with: 1 when none is written
Written == {<<>>, <<"0">>, <<"1">>, <<"2">>, <<"3">>}
CountOf(arguments) ==
    IF arguments = <<>> THEN 1
    ELSE CHOOSE n \in 0..3 : arguments = <<<<"0", "1", "2", "3">>[n + 1]>>

Least(a, b) == IF a <= b THEN a ELSE b
FirstOf(s, n) == SubSeq(s, 1, Least(n, Len(s)))
LastOf(s, n) == SubSeq(s, Len(s) - Least(n, Len(s)) + 1, Len(s))
Like(x, s) == [t |-> x.t, v |-> s]

\* C21: for a list xs and any n >= 0, head(n) is the first min(n, |xs|)
\* elements and tail(n) the last min(n, |xs|) elements, in their order, n
\* being 1 when not written; for a map the same over its entries.
C21_HeadTail ==
    \A arguments \in Written :
        /\ (CalledWith("head", arguments) /\ IsListOrMap(data)) =>
               outcome = Like(data, FirstOf(data.v, CountOf(arguments)))
        /\ (CalledWith("tail", arguments) /\ IsListOrMap(data)) =>
               outcome = Like(data, LastOf(data.v, CountOf(arguments)))

----------------------------------------------------------------------------
(* the domains of the built-in filters *)

BuiltIns == {"keys", "values", "sort", "reverse", "lower", "upper", "first",
             "last", "head", "tail", "sum", "cumul"}

OutsideDomain(name, x) ==
    CASE name \in {"keys", "values", "sort", "cumul", "head", "tail"} ->
             x.t \notin {"list", "dict"}
      [] name \in {"first", "last"} -> x.t # "list"
      [] name \in {"reverse", "lower", "upper"} -> x.t \notin {"str", "list", "dict"}
      [] name = "sum" ->
             \/ x.t \notin {"list", "dict"}
             \/ x.t = "list" /\ \E i \in 1..Len(x.v) : x.v[i].t # "int"

IsDomainError(x, name) ==
    /\ IsErr(x)
    /\ x.v = <<"ValueError", <<name, "filter cannot be applied to given value">>>>

\* C22: a built-in filter applied to a value outside its domain (keys or
\* sort of a scalar, first of a map, sum of a list with a string in it,
\* lower of a number) fails with the error of the filter's domain: it returns
\* no value and raises no missing-key, unknown-filter or argument error.
C22_FilterDomain ==
    \A name \in BuiltIns :
        (CalledWith(name, <<>>) /\ OutsideDomain(name, data)) =>
            IsDomainError(outcome, name)

----------------------------------------------------------------------------
(* the shape of a spec *)

RECURSIVE OnlyStrsAndMaps(_)
OnlyStrsAndMaps(items) ==
    \A i \in 1..Len(items) :
        \/ items[i].v.t = "str"
        \/ items[i].v.t = "dict" /\ OnlyStrsAndMaps(items[i].v.v)

IsShapeError(x) ==
    IsErr(x) /\ x.v = <<"ValueError", <<"unexpected type in given data">>>>

\* C23: when the walk of apply_spec reaches a value of the spec, at any
\* depth, that is neither a string nor a map, apply_spec fails there with the
\* error of the spec's shape and returns nothing; so a call that returns has
\* walked a spec of strings and maps only.
C23_SpecShape ==
    /\ [](status = "returned" => OnlyStrsAndMaps(spec.v))
    /\ [][(InLoop /\ Cur.v.t \notin {"str", "dict"}) =>
             /\ status' = "raised"
             /\ IsShapeError(outcome')
             /\ stack' = <<>>]_vars

C23_Witness ==
    /\ spec = DictV(<<Entry(Name("a"), DictV(<<Entry(Name("b"), IntV(1))>>))>>)
    /\ status = "raised"
    /\ IsShapeError(outcome)

----------------------------------------------------------------------------
(* format_currency of a selected value *)

\* a selector f|format_currency(c) of a field of the data
IsCurrencyCall(toks) ==
    /\ Len(toks) = 6
    /\ IsIdent(toks[1]) /\ toks[2] = "|" /\ toks[3] = "format_currency"
    /\ toks[4] = "(" /\ IsArg(toks[5]) /\ toks[6] = ")"
    /\ HasField(data, toks[1])

InCurrency(x, c) == StrV(<<c, ToString(x.v), "en_US">>)
AllOfNumbers(s) == \A i \in 1..Len(s) : s[i].t = "int"

\* C24: format_currency(c) of a list formats every element, and of a map
\* every value, with the currency c that was given and the locale of the
\* evaluation; keys and order stay as they are.
C24_CurrencyRecursion ==
    (Selected /\ IsCurrencyCall(selector)) =>
        /\ (FieldOf(data, selector[1]).t = "list"
              /\ AllOfNumbers(FieldOf(data, selector[1]).v)) =>
               outcome = ListV([i \in 1..Len(FieldOf(data, selector[1]).v) |->
                                   InCurrency(FieldOf(data, selector[1]).v[i],
                                              selector[5])])
        /\ (FieldOf(data, selector[1]).t = "dict"
              /\ AllOfNumbers(ValuesIn(FieldOf(data, selector[1]).v))) =>
               outcome = DictV([i \in 1..Len(FieldOf(data, selector[1]).v) |->
                                   Entry(FieldOf(data, selector[1]).v[i].k,
                                         InCurrency(FieldOf(data, selector[1]).v[i].v,
                                                    selector[5]))])

----------------------------------------------------------------------------
(* keys of one spec object that strip to the same name *)

RECURSIVE HasDuplicateStripped(_)
HasDuplicateStripped(items) ==
    \/ \E i \in 1..Len(items) : \E j \in (i + 1)..Len(items) :
           WithoutSigils(items[i].k) = WithoutSigils(items[j].k)
    \/ \E i \in 1..Len(items) :
           items[i].v.t = "dict" /\ HasDuplicateStripped(items[i].v.v)

\* C25: a spec object with two keys that strip to the same name (name and
\* name?, k and ~k) makes apply_spec fail with the error of the spec's shape;
\* no call returns in which the later entry took the place of the earlier.
C25_DuplicateStrippedKeys ==
    status = "returned" => ~HasDuplicateStripped(spec.v)

----------------------------------------------------------------------------
(* a lookup of the key of a nested spec of the same object *)

\* the earlier siblings of entry j called name, whatever their sigils
EarlierNamed(j, name) ==
    {i \in 1..(log[j].i - 1) : WithoutSigils(SiblingsOf(j)[i].k) = <<name>>}

\* name is the key of earlier nested specs of the object of entry j, and of
\* no earlier leaf of it
OnlyNestedNamed(j, name) ==
    /\ EarlierNamed(j, name) # {}
    /\ \A i \in EarlierNamed(j, name) : SiblingsOf(j)[i].v.t = "dict"

\* C28: the lookup table of a spec object holds the values of its selector
\* leaves only: a leaf =X, X the key of an earlier nested spec of the same
\* object and of no earlier leaf, raises the missing-key error and never
\* resolves to the nested result.
C28_NestedNotInLookupTable ==
    \A j \in 1..Len(log) :
        (IsBareLookup(SelectorOf(j)) /\ OnlyNestedNamed(j, SelectorOf(j)[2]))
            => IsKeyError(log[j].value)

----------------------------------------------------------------------------
(* the order of the leaf evaluations and of the calls of urlopen *)

\* the place of a leaf in the spec: the positions to descend through, then
\* its own
PlaceOf(j) == Append(log[j].path, log[j].i)

\* p comes before q in the depth-first walk of the spec
RECURSIVE ComesBefore(_, _)
ComesBefore(p, q) ==
    /\ p # <<>> /\ q # <<>>
    /\ \/ Head(p) < Head(q)
       \/ Head(p) = Head(q) /\ ComesBefore(Tail(p), Tail(q))

\* the places of the selector leaves of a spec
RECURSIVE LeafPlaces(_, _)
LeafPlaces(items, path) ==
    UNION {IF items[i].v.t = "str" THEN {Append(path, i)}
           ELSE IF items[i].v.t = "dict"
           THEN LeafPlaces(items[i].v.v, Append(path, i))
           ELSE {} : i \in 1..Len(items)}

\* the log is the depth-first walk of the leaves as far as it got
InWalkOrder ==
    /\ \A j \in 1..Len(log) : \A k \in (j + 1)..Len(log) :
           ComesBefore(PlaceOf(j), PlaceOf(k))
    /\ \A p \in LeafPlaces(spec.v, <<>>) :
           (\/ status = "returned"
            \/ \E k \in 1..Len(log) : ComesBefore(p, PlaceOf(k)))
               => \E j \in 1..Len(log) : PlaceOf(j) = p

\* the evaluation of entry j failed and its key does not recover from it
FailedFatally(j) ==
    /\ IsErr(log[j].value)
    /\ ~(IsKeyError(log[j].value) /\ IsOptional(log[j].key))

\* the URLs of a value that fetch reaches: the string itself, or the items
\* of a list up to the first that fails to open (one that is no string does)
Opens(url) == url.t = "str" /\ url.v \notin Unreachable

RECURSIVE UpToFailure(_)
UpToFailure(urls) ==
    IF Len(urls) = 0 THEN <<>>
    ELSE IF ~Opens(Head(urls)) THEN <<Head(urls)>>
    ELSE <<Head(urls)>> \o UpToFailure(Tail(urls))

UrlsReached(x) ==
    IF x.t = "str" THEN <<x>>
    ELSE IF x.t = "list" THEN UpToFailure(x.v)
    ELSE <<>>

\* the selector of entry j ends in |fetch; what it hands to fetch
IsFetchLeaf(j) ==
    /\ Len(SelectorOf(j)) >= 3
    /\ SubSeq(SelectorOf(j), Len(SelectorOf(j)) - 1, Len(SelectorOf(j)))
           = <<"|", "fetch">>

EarlierLeaf(j, name) ==
    {k \in 1..(j - 1) : /\ log[k].path = log[j].path
                        /\ log[k].key = <<name>>
                        /\ ~IsErr(log[k].value)}

Fetched(j) ==
    IF SelectorOf(j)[1] = "="
    THEN IF EarlierLeaf(j, SelectorOf(j)[2]) = {} THEN NoneV
         ELSE log[Latest(EarlierLeaf(j, SelectorOf(j)[2]))].value
    ELSE IF HasField(data, SelectorOf(j)[1])
    THEN FieldOf(data, SelectorOf(j)[1])
    ELSE NoneV

\* the URLs the leaves of the log from entry j on give to urlopen
RECURSIVE UrlsFrom(_)
UrlsFrom(j) ==
    IF j > Len(log) THEN <<>>
    ELSE (IF IsFetchLeaf(j) THEN UrlsReached(Fetched(j)) ELSE <<>>)
         \o UrlsFrom(j + 1)

\* C29: apply_spec evaluates the leaves in spec key order, depth-first, and
\* stops at the first fatal error: a leaf that failed fatally is the last one
\* evaluated and its error is the outcome; urlopen is called for the URLs
\* of the evaluated leaves only, once for each URL reached, in that order.
C29_WalkOrderAndFetch ==
    /\ InWalkOrder
    /\ \A j \in 1..Len(log) :
           FailedFatally(j) =>
               j = Len(log) /\ status = "raised" /\ outcome = log[j].value
    /\ opened = UrlsFrom(1)

\* a list was fetched up to the URL that fails to open, and a later leaf
\* that fetches was never evaluated
C29_Witness ==
    /\ status = "raised"
    /\ Len(log) >= 1
    /\ Len(opened) >= 2
    /\ opened[Len(opened)].v \in Unreachable
    /\ \E p \in LeafPlaces(spec.v, <<>>) :
           /\ ComesBefore(PlaceOf(Len(log)), p)
           /\ ItemsAt(spec.v, SubSeq(p, 1, Len(p) - 1))[p[Len(p)]].v.v
                  = <<"x", "|", "fetch">>

----------------------------------------------------------------------------
(* the construction of a Filler *)

\* the constructor has gone past validation
PastValidation == status \in {"validated", "running", "returned"}

----------------------------------------------------------------------------
(* two calls of apply_spec in two threads *)

\* what apply_spec(items, d) gives when nothing else runs: the loop from
\* entry i on with the result so far
RECURSIVE RunAlone(_, _, _, _)
AfterLeaf(items, i, result, d, value) ==
    IF ~IsErr(value)
    THEN RunAlone(items, i + 1, DictSet(result, StoreKey(items[i].k), value), d)
    ELSE IF IsKeyError(value) /\ EndsWithMark(items[i].k)
    THEN RunAlone(items, i + 1, result, d)
    ELSE value

AfterNested(items, i, result, d, sub) ==
    IF IsErr(sub) THEN sub
    ELSE RunAlone(items, i + 1, DictSet(result, items[i].k, sub), d)

RunAlone(items, i, result, d) ==
    IF i > Len(items) THEN DictV(result)
    ELSE IF items[i].v.t = "str"
    THEN AfterLeaf(items, i, result, d,
                   select_data(d, items[i].v.v, DictV(result)))
    ELSE IF items[i].v.t = "dict"
    THEN AfterNested(items, i, result, d, RunAlone(items[i].v.v, 1, <<>>, d))
    ELSE Err("ValueError", <<"unexpected type in given data">>)

\* C27: two calls of apply_spec that run in two threads on specs and data of
\* their own, with a registry that nobody changes, each end, however their
\* steps interleave, as they end when run alone: with the same result or
\* the same error.
C27_InterleavedAsAlone ==
    /\ status \in {"returned", "raised"}
           => outcome = RunAlone(spec.v, 1, <<>>, data)
    /\ other.status \in {"returned", "raised"}
           => other.outcome = RunAlone(other.spec.v, 1, <<>>, other.data)
    /\ functions = <<DefaultFunctions>>

\* both calls have ended, one with a lookup resolved and one with the same
\* lookup failed, and each was suspended while the other ran
C27_Witness ==
    /\ status = "raised" /\ IsKeyError(outcome)
    /\ other.status = "returned"
    /\ HasKey(other.outcome.v, <<"b">>)
    /\ Len(log) >= 1 /\ Len(other.log) >= 2
    /\ spec.v[Len(spec.v)].v = StrV(<<"=", "a">>)

----------------------------------------------------------------------------
(* the inputs of a call after the call *)

\* the spec has a leaf with this filter
HasFilterLeaf(name) ==
    \E i \in 1..Len(spec.v) :
        /\ spec.v[i].v.t = "str"
        /\ \E j \in 1..Len(spec.v[i].v.v) : spec.v[i].v.v[j] = name

\* C26: apply_spec and select_data leave their inputs as they were: at every
\* step of a call and after it, returned or failed, leaves skipped or not,
\* the spec and the data hold the values they held before the call, and so
\* does every object that was in memory before it, also where combine, sort,
\* reverse, head, tail or values worked on parts of the data.
C26_InputsUnchanged ==
    /\ Load(heap, DataRoot) = data
    /\ Load(heap, SpecRoot) = spec
    /\ SubSeq(heap, 1, Len(Before)) = Before

\* a call returned that sorted a list of the data which its result also
\* holds as the object it is in the data
C26_Witness ==
    /\ status = "returned"
    /\ HasFilterLeaf("sort")
    /\ \E i \in 1..Len(Peek(heap, outcome).v) :
           /\ Peek(heap, outcome).v[i].v.t = "ref"
           /\ Peek(heap, outcome).v[i].v.v <= Len(Before)
    /\ \E i \in 1..Len(Peek(heap, outcome).v) :
           /\ Peek(heap, outcome).v[i].v.t = "ref"
           /\ Load(heap, Peek(heap, outcome).v[i].v)
                  = ListV(<<IntV(1), IntV(2), IntV(3)>>)

====
